---- MODULE Spec2Model ----
(***************************************************************************)
(* A model of cpuad-updater: the developer-activity fetcher                *)
(* (fetch_developer_activity.py) and the mock-data simulator               *)
(* (generate_mock_data.py).                                                *)
(*                                                                         *)
(* Encodings.  A Python str is a TLA+ string.  A dict is a function from   *)
(* its keys to values; d.get(k) is None exactly when k is not in DOMAIN d. *)
(* A date is its day-of-year ordinal in 2026 (1 = 2026-01-01); strftime    *)
(* builds the "YYYY-MM-DD" text from it.  A float with two decimals is the *)
(* integer number of hundredths (1.30 is 130).  SHA-256 is taken as        *)
(* injective: a digest is represented by the byte string it was computed   *)
(* from.                                                                   *)
(***************************************************************************)
EXTENDS Integers, Sequences, FiniteSets, TLC

VARIABLES
    prog,        \* which program of the repository this behaviour runs
    pc,          \* position of that program
    args,        \* fetcher: the arguments of the public entry point
    api,         \* fetcher: the member-listing pages the API will answer with
    members,     \* fetcher: the roster (local `members`)
    idx,         \* fetcher: position of the `for member in members` loop
    dates,       \* fetcher: since_date / until_date
    all_records, \* fetcher: the accumulator list
    faults,      \* fetcher: API calls that did not answer 200 with a well-formed body
    log,         \* fetcher: what the latest loop iteration requested and received
    raisedAt,    \* fetcher: loop positions whose processing raised
    result,      \* fetcher: what the entry point returned
    source,      \* listing: the pages of the paged listing endpoint
    listed,      \* listing: what the pagination loop produced
    inputs,      \* hashing: the two dicts handed to generate_unique_hash
    hashes,      \* hashing: their unique_hash values
    sim,         \* simulator: developer, date and copilot_adoption_date of a call
    modifier,    \* simulator: what get_activity_modifier returned
    activity,    \* simulator: what generate_developer_activity_for_day returned
    usage,       \* simulator: what generate_copilot_metrics_for_day returned
    developers,  \* simulator: the roster of generate_all_mock_data
    current_date,       \* simulator: the day its while loop is at
    developer_idx,      \* simulator: position of `for developer in developers`
    copilot_metrics,    \* simulator: the list of usage records
    developer_activity, \* simulator: the list of activity records
    visited,     \* simulator: the <<day, roster position>> pairs visited so far
    mapping_files,      \* loader: the mapping files that exist beside the script
    calls,       \* loader: the requests sent to Elasticsearch, in order
    sink,        \* loader: the documents of each index, by document id
    batch_i,     \* loader: bulk_index's batch offset `i`
    indexed,     \* loader: bulk_index's count of documents indexed
    errors,      \* loader: bulk_index's count of documents in error
    totals,      \* loader: the (indexed, errors) pairs bulk_index returned
    success,     \* loader: what load_to_elasticsearch returned
    exit_status, \* loader: the exit status of the process
    runs,        \* loader: how many times the script has been run
    load_faults  \* loader: requests that did not succeed

fetchVars == <<args, api, members, idx, dates, all_records, faults, log, raisedAt, result>>
listVars == <<source, listed>>
hashVars == <<inputs, hashes>>
dayVars == <<sim, modifier, activity, usage>>
genVars == <<developers, current_date, developer_idx, visited>>
dataVars == <<copilot_metrics, developer_activity>>
loadVars ==
    <<mapping_files, calls, sink, batch_i, indexed, errors, totals, success, exit_status,
      runs, load_faults>>
simVars == <<dayVars, genVars, dataVars, loadVars>>

vars == <<prog, pc, fetchVars, listVars, hashVars, simVars>>

(***************************** bounds ***************************************)
MaxMembers == 2     \* longest roster
MaxDaysBack == 1    \* largest days_back
MaxFaults == 2      \* most API calls of one run that fail or answer malformed
MaxPages == 3       \* most pages a listing source holds

(***************************** helpers **************************************)
Min(a, b) == IF a < b THEN a ELSE b

SeqsUpTo(S, n) == UNION {[1..k -> S] : k \in 0..n}

RECURSIVE SelectSeqIdx(_, _, _)
\* the elements of s at positions not in `drop`, from position i on
SelectSeqIdx(s, drop, i) ==
    IF i > Len(s) THEN <<>>
    ELSE (IF i \in drop THEN <<>> ELSE <<s[i]>>) \o SelectSeqIdx(s, drop, i + 1)

RECURSIVE SumRange(_, _, _, _)
\* the sum of `counter` over the entries first..last of a list, by halves
SumRange(entries, counter, first, last) ==
    IF first > last THEN 0
    ELSE IF first = last THEN entries[first][counter]
    ELSE LET middle == (first + last) \div 2
         IN  SumRange(entries, counter, first, middle)
             + SumRange(entries, counter, middle + 1, last)

\* the sum of `counter` over the first n entries of a list
SumOf(entries, counter, n) == SumRange(entries, counter, 1, n)

(***************************** dates ****************************************)
MonthLengths == <<31, 28, 31, 30, 31, 30, 31, 31, 30, 31, 30, 31>>

RECURSIVE MonthOf(_, _)
\* <<month, day of month>> of ordinal d, counting from month m
MonthOf(d, m) ==
    IF d <= MonthLengths[m] THEN <<m, d>> ELSE MonthOf(d - MonthLengths[m], m + 1)

TwoDigits(n) == (IF n < 10 THEN "0" ELSE "") \o ToString(n)

\* date.strftime("%Y-%m-%d")
strftime(d) ==
    LET md == MonthOf(d, 1) IN "2026-" \o TwoDigits(md[1]) \o "-" \o TwoDigits(md[2])

\* datetime.strptime(s, "%Y-%m-%d"): the ordinal whose text is s
strptime(s) == CHOOSE d \in 1..365 : strftime(d) = s

\* datetime.now(): the run's clock, 2026-11-01
Today == 305

(***************************** identity hash ********************************)
RECURSIVE Join(_, _)
\* sep.join(parts)
Join(parts, sep) ==
    IF Len(parts) = 0 THEN ""
    ELSE IF Len(parts) = 1 THEN parts[1]
    ELSE parts[1] \o sep \o Join(Tail(parts), sep)

\* data.get(key_property), stringified; None serialises as ""
KeyElement(data, key_property) ==
    IF key_property \in DOMAIN data THEN data[key_property] ELSE ""

generate_unique_hash(data, key_properties) ==
    Join([i \in 1..Len(key_properties) |-> KeyElement(data, key_properties[i])], "-")

\* mutant: the capture timestamp taken into the key
ActivityKeyProperties_WithTimestamp ==
    <<"organization_slug", "user_login", "report_start_day", "report_end_day",
      "last_updated_at">>

\* key_properties of the fetcher's call
ActivityKeyProperties ==
    <<"organization_slug", "user_login", "report_start_day", "report_end_day">>

(***************************** HTTP responses *******************************)
\* What one requests.get can come to.  "ok": 200 with a body of the expected
\* shape (items for a listing, total for a search); "non200": another status;
\* "error": requests.get or response.json() raises; "badbody": 200 with valid
\* JSON of the other container type (an object where the caller iterates a
\* list of objects, a list where the caller reads a dict).
Resp(kind, items, total) == [kind |-> kind, items |-> items, total |-> total]
OkPage(items) == Resp("ok", items, 0)
OkCount(n) == Resp("ok", <<>>, n)
Fault(kind) == Resp(kind, <<>>, 0)
FaultKinds == {"non200", "error", "badbody"}

\* _make_rest_request(url, error_return_value): the parsed body, or
\* error_return_value on a non-200 status or an exception.  The result is
\* [failed, resp]: failed means error_return_value was returned.
make_rest_request(resp) ==
    [failed |-> resp.kind \in {"non200", "error"}, resp |-> resp]

(***************************** paged listing ********************************)
per_page == 100

\* the API's answer for page k of a listing: past the last page, an empty list
PageOf(src, k) == IF k <= Len(src) THEN src[k] ELSE OkPage(<<>>)

\* [m.get("login") for m in page_members if m.get("login")]
Logins(items) == SelectSeq(items, LAMBDA login : login # "")

RECURSIVE PagedListing_StopAtFullPage(_, _, _, _)
\* mutant: the short-page test written <= per_page
PagedListing_StopAtFullPage(src, page, acc, requests) ==
    LET got == make_rest_request(PageOf(src, page))
        page_members == IF got.failed THEN <<>> ELSE got.resp.items
    IN  IF got.failed \/ (got.resp.kind = "ok" /\ Len(page_members) = 0)
        THEN [members |-> acc, requests |-> requests + 1, raised |-> FALSE]
        ELSE IF got.resp.kind = "badbody"
        THEN [members |-> acc, requests |-> requests + 1, raised |-> TRUE]
        ELSE IF Len(page_members) <= per_page
        THEN [members |-> acc \o Logins(page_members),
              requests |-> requests + 1, raised |-> FALSE]
        ELSE PagedListing_StopAtFullPage(src, page + 1,
                 acc \o Logins(page_members), requests + 1)

RECURSIVE PagedListing_DropsOnFailure(_, _, _, _)
\* mutant: a failed page returns the error value instead of the accumulator
PagedListing_DropsOnFailure(src, page, acc, requests) ==
    LET got == make_rest_request(PageOf(src, page))
        page_members == IF got.failed THEN <<>> ELSE got.resp.items
    IN  IF got.failed
        THEN [members |-> <<>>, requests |-> requests + 1, raised |-> FALSE]
        ELSE IF got.resp.kind = "ok" /\ Len(page_members) = 0
        THEN [members |-> acc, requests |-> requests + 1, raised |-> FALSE]
        ELSE IF got.resp.kind = "badbody"
        THEN [members |-> acc, requests |-> requests + 1, raised |-> TRUE]
        ELSE IF Len(page_members) < per_page
        THEN [members |-> acc \o Logins(page_members),
              requests |-> requests + 1, raised |-> FALSE]
        ELSE PagedListing_DropsOnFailure(src, page + 1,
                 acc \o Logins(page_members), requests + 1)

RECURSIVE PagedListing(_, _, _, _)
\* The `while True` loop of get_organization_members / get_organization_repos
\* from page `page` on, with `acc` accumulated and `requests` issued so far.
PagedListing(src, page, acc, requests) ==
    LET got == make_rest_request(PageOf(src, page))
        page_members == IF got.failed THEN <<>> ELSE got.resp.items
    IN  IF got.failed \/ (got.resp.kind = "ok" /\ Len(page_members) = 0)
        THEN [members |-> acc, requests |-> requests + 1, raised |-> FALSE]
        ELSE IF got.resp.kind = "badbody"
        THEN \* iterating a JSON object yields its keys: str has no .get
             [members |-> acc, requests |-> requests + 1, raised |-> TRUE]
        ELSE IF Len(page_members) < per_page
        THEN [members |-> acc \o Logins(page_members),
              requests |-> requests + 1, raised |-> FALSE]
        ELSE PagedListing(src, page + 1, acc \o Logins(page_members), requests + 1)

get_organization_members(src) == PagedListing(src, 1, <<>>, 0)

get_organization_repos(src) == PagedListing(src, 1, <<>>, 0)

(***************************** per-member queries ***************************)
\* The eight search queries of one member, in the order they are issued:
\* get_user_commits, then the four of get_user_pull_requests, then the three
\* of get_user_issues.  Position 0 of a member's responses is the repository
\* listing get_user_commits pages first (repos is None).
Queries ==
    <<"commit_count", "prs_opened", "prs_merged", "prs_reviewed", "pr_comments",
      "issues_opened", "issues_closed", "issue_comments">>

\* data.get("total_count", 0) on what _make_rest_request(url, {}) returned
total_count(got) == IF got.failed THEN 0 ELSE got.resp.total

\* get_user_commits: the repository listing, then the commit search inside
\* its own try/except (a non-200 status, an exception and a body without
\* .get all leave total_commits at 0).
get_user_commits(resps) ==
    LET repos == get_organization_repos(<<resps[0]>>)
        r == resps[1]
        fine == r.kind = "ok"
        names == IF fine THEN {r.items[i] : i \in 1..Len(r.items)} ELSE {}
    IN  IF repos.raised
        THEN [raised |-> TRUE, issued |-> <<>>, commit_count |-> 0,
              repos_contributed |-> 0]
        ELSE [raised |-> FALSE, issued |-> <<Queries[1]>>,
              commit_count |-> IF fine THEN r.total ELSE 0,
              repos_contributed |-> Cardinality(names)]

RECURSIVE CountQueries_ListDefault(_, _, _, _, _)
\* mutant: _make_rest_request called without its {} default, so a failed
\* query hands back a list, which has no .get
CountQueries_ListDefault(resps, q, last, metrics, issued) ==
    IF q > last THEN [raised |-> FALSE, issued |-> issued, metrics |-> metrics]
    ELSE IF resps[q].kind = "badbody" \/ make_rest_request(resps[q]).failed
    THEN [raised |-> TRUE, issued |-> Append(issued, Queries[q]), metrics |-> metrics]
    ELSE CountQueries_ListDefault(resps, q + 1, last,
             [metrics EXCEPT ![Queries[q]] = total_count(make_rest_request(resps[q]))],
             Append(issued, Queries[q]))

RECURSIVE CountQueries(_, _, _, _, _)
\* The count-only queries at positions q..last: each stores its total_count
\* under its own name; a body that is a list has no .get and raises, which
\* ends the function.  Returns the metrics set, the queries issued, raised.
CountQueries(resps, q, last, metrics, issued) ==
    IF q > last THEN [raised |-> FALSE, issued |-> issued, metrics |-> metrics]
    ELSE IF resps[q].kind = "badbody"
    THEN [raised |-> TRUE, issued |-> Append(issued, Queries[q]), metrics |-> metrics]
    ELSE CountQueries(resps, q + 1, last,
             [metrics EXCEPT ![Queries[q]] = total_count(make_rest_request(resps[q]))],
             Append(issued, Queries[q]))

get_user_pull_requests(resps) ==
    CountQueries(resps, 2, 5,
        [prs_opened |-> 0, prs_merged |-> 0, prs_reviewed |-> 0,
         pr_comments |-> 0, prs_closed |-> 0], <<>>)

get_user_issues(resps) ==
    CountQueries(resps, 6, 8,
        [issues_opened |-> 0, issues_closed |-> 0, issue_comments |-> 0], <<>>)

\* round(count / days, 2), in hundredths (no count/days of the model falls
\* on a rounding tie)
Round2(count, days) == (200 * count + days) \div (2 * days)

\* mutant: prs_closed summed into total_contributions in place of prs_merged
build_record_TotalOfClosed(member, org, slug_type, since_date, until_date, days_back, commit_metrics, pr_metrics, issue_metrics) ==
    LET total_contributions ==
            commit_metrics.commit_count + pr_metrics.prs_opened
            + pr_metrics.prs_closed + pr_metrics.prs_reviewed
            + issue_metrics.issues_opened
        code_review_activity == pr_metrics.prs_reviewed + pr_metrics.pr_comments
        record ==
            [user_login |-> member,
             organization_slug |-> org,
             slug_type |-> slug_type,
             day |-> strftime(until_date),
             report_start_day |-> strftime(since_date),
             report_end_day |-> strftime(until_date),
             period_days |-> days_back,
             commit_count |-> commit_metrics.commit_count,
             repos_contributed |-> commit_metrics.repos_contributed,
             prs_opened |-> pr_metrics.prs_opened,
             prs_merged |-> pr_metrics.prs_merged,
             prs_reviewed |-> pr_metrics.prs_reviewed,
             pr_comments |-> pr_metrics.pr_comments,
             prs_closed |-> pr_metrics.prs_closed,
             issues_opened |-> issue_metrics.issues_opened,
             issues_closed |-> issue_metrics.issues_closed,
             issue_comments |-> issue_metrics.issue_comments,
             total_contributions |-> total_contributions,
             code_review_activity |-> code_review_activity,
             commits_per_day |-> Round2(commit_metrics.commit_count, days_back),
             prs_per_day |-> Round2(pr_metrics.prs_opened, days_back),
             reviews_per_day |-> Round2(pr_metrics.prs_reviewed, days_back),
             last_updated_at |-> "2026-11-01T09:00:00",
             utc_offset |-> "+00:00"]
    IN  record @@ [unique_hash |-> generate_unique_hash(record, ActivityKeyProperties)]

\* lines 319-377: the record of one member, with its unique_hash
build_record(member, org, slug_type, since_date, until_date, days_back, commit_metrics, pr_metrics, issue_metrics) ==
    LET total_contributions ==
            commit_metrics.commit_count + pr_metrics.prs_opened
            + pr_metrics.prs_merged + pr_metrics.prs_reviewed
            + issue_metrics.issues_opened
        code_review_activity == pr_metrics.prs_reviewed + pr_metrics.pr_comments
        record ==
            [user_login |-> member,
             organization_slug |-> org,
             slug_type |-> slug_type,
             day |-> strftime(until_date),
             report_start_day |-> strftime(since_date),
             report_end_day |-> strftime(until_date),
             period_days |-> days_back,
             commit_count |-> commit_metrics.commit_count,
             repos_contributed |-> commit_metrics.repos_contributed,
             prs_opened |-> pr_metrics.prs_opened,
             prs_merged |-> pr_metrics.prs_merged,
             prs_reviewed |-> pr_metrics.prs_reviewed,
             pr_comments |-> pr_metrics.pr_comments,
             prs_closed |-> pr_metrics.prs_closed,
             issues_opened |-> issue_metrics.issues_opened,
             issues_closed |-> issue_metrics.issues_closed,
             issue_comments |-> issue_metrics.issue_comments,
             total_contributions |-> total_contributions,
             code_review_activity |-> code_review_activity,
             commits_per_day |-> Round2(commit_metrics.commit_count, days_back),
             prs_per_day |-> Round2(pr_metrics.prs_opened, days_back),
             reviews_per_day |-> Round2(pr_metrics.prs_reviewed, days_back),
             last_updated_at |-> "2026-11-01T09:00:00",
             utc_offset |-> "+00:00"]
    IN  record @@ [unique_hash |-> generate_unique_hash(record, ActivityKeyProperties)]

\* The body of `for member in members` (the try block): [raised, issued,
\* record], where raised means the except clause ran and no record was
\* appended.  days_back = 0 raises ZeroDivisionError at the per-day rates.
process_member(member, org, slug_type, since_date, until_date, days_back, resps) ==
    LET commit_metrics == get_user_commits(resps)
        pr_metrics == get_user_pull_requests(resps)
        issue_metrics == get_user_issues(resps)
        none == [user_login |-> member]
    IN  IF commit_metrics.raised
        THEN [raised |-> TRUE, issued |-> <<>>, record |-> none]
        ELSE IF pr_metrics.raised
        THEN [raised |-> TRUE, record |-> none,
              issued |-> commit_metrics.issued \o pr_metrics.issued]
        ELSE IF issue_metrics.raised
        THEN [raised |-> TRUE, record |-> none,
              issued |-> commit_metrics.issued \o pr_metrics.issued
                         \o issue_metrics.issued]
        ELSE [raised |-> days_back = 0,
              issued |-> commit_metrics.issued \o pr_metrics.issued
                         \o issue_metrics.issued,
              record |-> IF days_back = 0 THEN none
                         ELSE build_record(member, org, slug_type, since_date,
                                  until_date, days_back, commit_metrics,
                                  pr_metrics.metrics, issue_metrics.metrics)]

(***************************** the fetcher **********************************)
LoginNames == {"alex", "sam"}

\* rosters a caller can pass as `members` (a login may repeat)
Rosters == {r \in SeqsUpTo(LoginNames, MaxMembers) : Len(r) > 0 => r[1] = "alex"}

\* first pages of the member listing: a short page of member objects (one
\* of which may lack a login), or a page that fails or is malformed
MemberPages ==
    {OkPage(items) : items \in
        {r \in SeqsUpTo(LoginNames \cup {""}, MaxMembers) :
            \A i \in 1..Len(r) : r[i] \in {"", <<"alex", "sam", "alex">>[i]}}}
    \cup {Fault(k) : k \in FaultKinds}

\* what the eight searches report for a member with no activity, and for a
\* busy one; the commit search also lists the repositories of its first page
Profiles ==
    { [totals |-> <<0, 0, 0, 0, 0, 0, 0, 0>>, items |-> <<>>],
      [totals |-> <<5, 3, 2, 4, 6, 1, 1, 2>>,
       items |-> <<"api-gateway", "web-app", "api-gateway">>] }

\* the responses of one member's requests: those at the positions in F fail
\* with kinds[q], the others answer as the profile says
MemberResponses(profile, F, kinds) ==
    [q \in 0..8 |->
        IF q \in F THEN Fault(kinds[q])
        ELSE IF q = 0 THEN OkPage(<<"api-gateway", "web-app">>)
        ELSE IF q = 1 THEN Resp("ok", profile.items, profile.totals[1])
        ELSE OkCount(profile.totals[q])]

slug_type(is_standalone) == IF is_standalone THEN "Standalone" ELSE "Organization"

NotListed == [members |-> <<>>, requests |-> 0, raised |-> FALSE]

\* the variables of the programs a behaviour does not run
IdleListing == source = <<>> /\ listed = NotListed
IdleHashing == inputs = <<>> /\ hashes = <<>>
IdleDay ==
    /\ sim = <<>>
    /\ modifier = 0
    /\ activity = [emitted |-> FALSE]
    /\ usage = [emitted |-> FALSE]

IdleGenerate ==
    /\ developers = <<>>
    /\ current_date = 0
    /\ developer_idx = 0
    /\ visited = <<>>

NoData == copilot_metrics = <<>> /\ developer_activity = <<>>

IdleLoader ==
    /\ mapping_files = {}
    /\ calls = <<>>
    /\ sink = <<>>
    /\ batch_i = 0
    /\ indexed = 0
    /\ errors = 0
    /\ totals = <<>>
    /\ success = "none"
    /\ exit_status = -1
    /\ runs = 0
    /\ load_faults = 0

IdleSimulator == IdleDay /\ IdleGenerate /\ NoData /\ IdleLoader

NoLog == [member |-> 0, resps |-> <<>>, issued |-> <<>>, raised |-> FALSE]

\* fetch_developer_activity calls fetch_developer_activity_for_members with
\* members=None and save_to_json=True; the method itself takes any arguments.
InitFetch ==
    /\ prog = "fetcher"
    /\ pc = "start"
    /\ \E entry \in {"fetch_developer_activity", "fetch_developer_activity_for_members"},
          given \in BOOLEAN, roster \in Rosters, days_back \in 0..MaxDaysBack,
          save_to_json \in BOOLEAN :
          /\ entry = "fetch_developer_activity" => ~given /\ save_to_json
          /\ ~given => roster = <<>>
          /\ args = [entry |-> entry, organization_slug |-> "acme-corp",
                     is_standalone |-> FALSE, members_given |-> given,
                     members |-> roster, days_back |-> days_back,
                     save_to_json |-> save_to_json]
    /\ \E page \in MemberPages :
          /\ args.members_given => page = OkPage(<<>>)
          /\ api = <<page>>
    /\ members = <<>>
    /\ idx = 0
    /\ dates = [since_date |-> Today, until_date |-> Today]
    /\ all_records = <<>>
    /\ faults = 0
    /\ log = NoLog
    /\ raisedAt = {}
    /\ result = [state |-> "running", value |-> <<>>]
    /\ IdleListing
    /\ IdleHashing
    /\ IdleSimulator

\* lines 294-308: resolve the roster, return [] when it is empty, else set
\* the window and start the loop
FetchStart ==
    /\ prog = "fetcher" /\ pc = "start"
    /\ LET listing == IF args.members_given
                      THEN [members |-> args.members, requests |-> 0, raised |-> FALSE]
                      ELSE get_organization_members(api)
           until_date == Today
       IN  /\ faults' = faults + (IF api[1].kind = "ok" THEN 0 ELSE 1)
           /\ IF listing.raised
              THEN /\ pc' = "done"
                   /\ result' = [state |-> "raised", value |-> <<>>]
                   /\ UNCHANGED <<members, idx, dates>>
              ELSE IF listing.members = <<>>
              THEN /\ pc' = "done"
                   /\ result' = [state |-> "returned", value |-> <<>>]
                   /\ members' = listing.members
                   /\ UNCHANGED <<idx, dates>>
              ELSE /\ pc' = "loop"
                   /\ members' = listing.members
                   /\ idx' = 1
                   /\ dates' = [since_date |-> until_date - args.days_back,
                                until_date |-> until_date]
                   /\ UNCHANGED result
    /\ UNCHANGED <<prog, args, api, all_records, log, raisedAt, listVars, hashVars, simVars>>

FaultSets(budget) == {F \in SUBSET (0..8) : Cardinality(F) <= budget}

\* mutant: the except clause leaves the loop (break for continue)
ProcessMember_BreakOnError ==
    /\ prog = "fetcher" /\ pc = "loop" /\ idx <= Len(members)
    /\ \E profile \in Profiles, F \in FaultSets(MaxFaults - faults) :
       \E kinds \in [F -> FaultKinds] :
       \E resps \in {MemberResponses(profile, F, kinds)} :
       \E run \in {process_member(members[idx], args.organization_slug,
                       slug_type(args.is_standalone), dates.since_date,
                       dates.until_date, args.days_back, resps)} :
          \* only a request that is issued can fail
          /\ \A q \in F \ {0} : \E i \in 1..Len(run.issued) : run.issued[i] = Queries[q]
          /\ faults' = faults + Cardinality(F)
          /\ log' = [member |-> idx, resps |-> resps, issued |-> run.issued,
                     raised |-> run.raised]
          /\ all_records' = IF run.raised THEN all_records
                            ELSE Append(all_records, run.record)
          /\ raisedAt' = IF run.raised THEN raisedAt \cup {idx} ELSE raisedAt
          /\ idx' = IF run.raised THEN Len(members) + 1 ELSE idx + 1
    /\ UNCHANGED <<prog, pc, args, api, members, dates, result, listVars, hashVars, simVars>>

\* lines 310-384: one iteration of `for member in members`
ProcessMember ==
    /\ prog = "fetcher" /\ pc = "loop" /\ idx <= Len(members)
    /\ \E profile \in Profiles, F \in FaultSets(MaxFaults - faults) :
       \E kinds \in [F -> FaultKinds] :
       \E resps \in {MemberResponses(profile, F, kinds)} :
       \E run \in {process_member(members[idx], args.organization_slug,
                       slug_type(args.is_standalone), dates.since_date,
                       dates.until_date, args.days_back, resps)} :
          \* only a request that is issued can fail
          /\ \A q \in F \ {0} : \E i \in 1..Len(run.issued) : run.issued[i] = Queries[q]
          /\ faults' = faults + Cardinality(F)
          /\ log' = [member |-> idx, resps |-> resps, issued |-> run.issued,
                     raised |-> run.raised]
          /\ all_records' = IF run.raised THEN all_records
                            ELSE Append(all_records, run.record)
          /\ raisedAt' = IF run.raised THEN raisedAt \cup {idx} ELSE raisedAt
    /\ idx' = idx + 1
    /\ UNCHANGED <<prog, pc, args, api, members, dates, result, listVars, hashVars, simVars>>

\* lines 386-395: the optional JSON save (the import of main and the write
\* are outside any try), then return all_records
SaveAndReturn ==
    /\ prog = "fetcher" /\ pc = "loop" /\ idx > Len(members)
    /\ \E save_raises \in BOOLEAN :
          /\ save_raises => args.save_to_json /\ all_records # <<>>
          /\ result' = IF save_raises THEN [state |-> "raised", value |-> <<>>]
                       ELSE [state |-> "returned", value |-> all_records]
    /\ pc' = "done"
    /\ UNCHANGED <<prog, args, api, members, idx, dates, all_records, faults, log,
                   raisedAt, listVars, hashVars, simVars>>

NextFetch == FetchStart \/ ProcessMember \/ SaveAndReturn

Spec == InitFetch /\ [][NextFetch]_vars

(***************************** the paged listing alone **********************)
\* The pagination loop on listing sources of up to MaxPages pages, with the
\* page size of the code.  Entry i of page p is the object whose login (name)
\* is "u<p>.<i>"; with `hole` the first object of the first page has none.
PageSizes == {0, 1, 37, per_page}

MkPage(p, size, hole) ==
    OkPage([i \in 1..size |->
        IF hole /\ p = 1 /\ i = 1 THEN "" ELSE "u" \o ToString(p) \o "." \o ToString(i)])

Sources ==
    UNION { { [p \in 1..n |-> IF shape[p] \in PageSizes
                              THEN MkPage(p, shape[p], hole)
                              ELSE Fault(<<"non200", "error", "badbody">>[-shape[p]])]
              : shape \in [1..n -> PageSizes \cup {-1, -2, -3}] }
            : n \in 1..MaxPages, hole \in BOOLEAN }

IdleFetcher ==
    /\ args = <<>>
    /\ api = <<>>
    /\ members = <<>>
    /\ idx = 0
    /\ dates = <<>>
    /\ all_records = <<>>
    /\ faults = 0
    /\ log = NoLog
    /\ raisedAt = {}
    /\ result = [state |-> "running", value |-> <<>>]

InitPaging ==
    /\ prog = "listing"
    /\ pc = "start"
    /\ source \in Sources
    /\ listed = NotListed
    /\ IdleFetcher
    /\ IdleHashing
    /\ IdleSimulator

ListMembers ==
    /\ prog = "listing" /\ pc = "start"
    /\ listed' = get_organization_members(source)
    /\ pc' = "members"
    /\ UNCHANGED <<prog, fetchVars, source, hashVars, simVars>>

ListRepos ==
    /\ prog = "listing" /\ pc = "start"
    /\ listed' = get_organization_repos(source)
    /\ pc' = "repos"
    /\ UNCHANGED <<prog, fetchVars, source, hashVars, simVars>>

NextPaging == ListMembers \/ ListRepos

SpecPaging == InitPaging /\ [][NextPaging]_vars

(***************************** the identity hash alone **********************)
\* Two records' natural-key fields and two of their other fields, as the
\* strings str() gives; a field may be absent (None).  Slugs and logins may
\* contain hyphens.
HashInputs ==
    { [f \in fs |-> IF f = "organization_slug" THEN org
                    ELSE IF f = "user_login" THEN user
                    ELSE IF f = "report_start_day" THEN strftime(start)
                    ELSE IF f = "report_end_day" THEN strftime(Today)
                    ELSE IF f = "commit_count" THEN commits
                    ELSE stamp]
      : org \in {"acme", "acme-corp"}, user \in {"corp-alex", "alex", ""},
        start \in {Today - 1, Today}, commits \in {"0", "5"},
        stamp \in {"2026-11-01T09:00:00", "2026-11-02T09:00:00"},
        fs \in { {"organization_slug", "user_login", "report_start_day",
                  "report_end_day", "commit_count", "last_updated_at"},
                 {"organization_slug", "report_start_day",
                  "report_end_day", "commit_count", "last_updated_at"} } }

InitHash ==
    /\ prog = "hashing"
    /\ pc = "start"
    /\ inputs \in HashInputs \X HashInputs
    /\ hashes = <<>>
    /\ IdleFetcher
    /\ IdleListing
    /\ IdleSimulator

\* record["unique_hash"] = generate_unique_hash(record, key_properties), for
\* both records, twice each
ComputeHashes ==
    /\ prog = "hashing" /\ pc = "start"
    /\ hashes' = <<generate_unique_hash(inputs[1], ActivityKeyProperties),
                   generate_unique_hash(inputs[2], ActivityKeyProperties),
                   generate_unique_hash(inputs[1], ActivityKeyProperties)>>
    /\ pc' = "done"
    /\ UNCHANGED <<prog, fetchVars, listVars, inputs, simVars>>

NextHash == ComputeHashes

SpecHash == InitHash /\ [][NextHash]_vars

(***************************** the simulator ********************************)
ORGANIZATION_SLUG == "acme-corp"
SLUG_TYPE == "Organization"
NUM_DEVELOPERS == 25
NUM_TEAMS == 5
DAYS_OF_DATA == 150
COPILOT_ADOPTION_DAYS_AGO == 70

\* DEVELOPER_PERSONAS; the multiplier, rate and range are in hundredths
DEVELOPER_PERSONAS ==
    [power_user |->
        [base_commits |-> <<3, 7>>, base_prs |-> <<1, 2>>, base_reviews |-> <<2, 4>>,
         copilot_multiplier |-> 130, copilot_adoption_rate |-> 92,
         acceptance_rate_range |-> <<30, 40>>,
         features |-> <<"code_completion", "chat_panel_ask_mode",
                        "chat_panel_agent_mode", "inline_chat">>],
     regular |->
        [base_commits |-> <<2, 5>>, base_prs |-> <<0, 2>>, base_reviews |-> <<1, 3>>,
         copilot_multiplier |-> 120, copilot_adoption_rate |-> 75,
         acceptance_rate_range |-> <<25, 32>>,
         features |-> <<"code_completion", "chat_panel_ask_mode">>],
     occasional |->
        [base_commits |-> <<1, 3>>, base_prs |-> <<0, 1>>, base_reviews |-> <<1, 2>>,
         copilot_multiplier |-> 110, copilot_adoption_rate |-> 45,
         acceptance_rate_range |-> <<20, 28>>,
         features |-> <<"code_completion">>],
     skeptic |->
        [base_commits |-> <<1, 3>>, base_prs |-> <<0, 1>>, base_reviews |-> <<1, 2>>,
         copilot_multiplier |-> 105, copilot_adoption_rate |-> 25,
         acceptance_rate_range |-> <<15, 22>>,
         features |-> <<"code_completion">>]]

TEAMS ==
    << [name |-> "platform", repos |-> <<"api-gateway", "auth-service", "config-manager">>,
        languages |-> <<"go", "python">>],
       [name |-> "frontend", repos |-> <<"web-app", "mobile-app", "design-system">>,
        languages |-> <<"typescript", "javascript", "css">>],
       [name |-> "backend", repos |-> <<"order-service", "inventory-service", "payment-service">>,
        languages |-> <<"java", "kotlin">>],
       [name |-> "data", repos |-> <<"analytics-pipeline", "ml-models", "data-warehouse">>,
        languages |-> <<"python", "sql">>],
       [name |-> "devops", repos |-> <<"infrastructure", "ci-cd-pipelines", "monitoring">>,
        languages |-> <<"terraform", "yaml", "python">>] >>

IDES ==
    << [name |-> "vscode", weight |-> 60, plugin_version |-> "1.234.0"],
       [name |-> "jetbrains", weight |-> 25, plugin_version |-> "1.5.12.6534"],
       [name |-> "neovim", weight |-> 10, plugin_version |-> "0.3.0"],
       [name |-> "visual-studio", weight |-> 5, plugin_version |-> "17.12.0"] >>

generate_developer_name(index) ==
    LET first_names ==
            <<"alex", "jordan", "taylor", "casey", "morgan", "riley", "quinn", "avery",
              "jamie", "drew", "sam", "chris", "pat", "blake", "cameron", "dakota",
              "skyler", "reese", "finley", "hayden", "emery", "rowan", "sage",
              "phoenix", "river">>
        last_names ==
            <<"chen", "patel", "garcia", "kim", "nguyen", "smith", "johnson", "williams",
              "brown", "jones", "miller", "davis", "rodriguez", "martinez", "hernandez",
              "lopez", "gonzalez", "wilson", "anderson", "thomas", "taylor", "moore",
              "jackson", "martin", "lee">>
    IN  first_names[(index % Len(first_names)) + 1] \o "-"
            \o last_names[(index % Len(last_names)) + 1]

\* the developer create_developers builds at index i, for one outcome of its
\* three random choices
create_developer(i, persona_name, primary_ide, seniority) ==
    LET team == TEAMS[(i % NUM_TEAMS) + 1] IN
    [user_login |-> generate_developer_name(i),
     user_id |-> 1000000 + i,
     team |-> team.name,
     repos |-> team.repos,
     languages |-> team.languages,
     persona |-> persona_name,
     persona_config |-> DEVELOPER_PERSONAS[persona_name],
     primary_ide |-> primary_ide,
     seniority |-> seniority]

\* date.weekday(): Monday is 0; 2026-01-01 is a Thursday
weekday(date) == (date + 2) % 7

is_workday(date) == weekday(date) < 5

\* mutant: the thresholds compared with <= (each step one day late)
get_activity_modifier_LateSteps(date, copilot_adoption_date) ==
    IF date < copilot_adoption_date THEN 100
    ELSE LET days_since_adoption == date - copilot_adoption_date IN
         IF days_since_adoption <= 7 THEN 98
         ELSE IF days_since_adoption <= 14 THEN 102
         ELSE IF days_since_adoption <= 21 THEN 108
         ELSE IF days_since_adoption <= 28 THEN 115
         ELSE IF days_since_adoption <= 35 THEN 120
         ELSE IF days_since_adoption <= 42 THEN 125
         ELSE IF days_since_adoption <= 56 THEN 128
         ELSE 130

\* mutant: the last two values exchanged (1.30 in weeks 7-8, 1.28 after)
get_activity_modifier_PeakBeforeCeiling(date, copilot_adoption_date) ==
    IF date < copilot_adoption_date THEN 100
    ELSE LET days_since_adoption == date - copilot_adoption_date IN
         IF days_since_adoption < 7 THEN 98
         ELSE IF days_since_adoption < 14 THEN 102
         ELSE IF days_since_adoption < 21 THEN 108
         ELSE IF days_since_adoption < 28 THEN 115
         ELSE IF days_since_adoption < 35 THEN 120
         ELSE IF days_since_adoption < 42 THEN 125
         ELSE IF days_since_adoption < 56 THEN 130
         ELSE 128

\* in hundredths
get_activity_modifier(date, copilot_adoption_date) ==
    IF date < copilot_adoption_date THEN 100
    ELSE LET days_since_adoption == date - copilot_adoption_date IN
         IF days_since_adoption < 7 THEN 98
         ELSE IF days_since_adoption < 14 THEN 102
         ELSE IF days_since_adoption < 21 THEN 108
         ELSE IF days_since_adoption < 28 THEN 115
         ELSE IF days_since_adoption < 35 THEN 120
         ELSE IF days_since_adoption < 42 THEN 125
         ELSE IF days_since_adoption < 56 THEN 128
         ELSE 130

\* the outcomes sampled for random.randint(lo, hi) and, in hundredths, for
\* random.uniform(lo, hi): the two ends of the range
randint(lo, hi) == {lo, hi}
uniform(lo, hi) == {lo, hi}

\* int(x) for x >= 0 given as numerator / denominator
IntOf(numerator, denominator) == numerator \div denominator

\* mutant: the day left out of the key
SimKeyProperties_WithoutDay == <<"organization_slug", "user_login">>

\* key_properties of the simulator's calls
SimKeyProperties == <<"organization_slug", "user_login", "day">>

\* mutant: the ramp and the persona multiplier applied on every day
activity_modifier_BeforeAdoptionToo(developer, date, copilot_adoption_date) ==
    get_activity_modifier(date, copilot_adoption_date)
        * developer.persona_config.copilot_multiplier

\* lines 362-368: the local `modifier` of
\* generate_developer_activity_for_day, in 1/10000 (the ramp times the
\* persona's multiplier, both in hundredths)
activity_modifier(developer, date, copilot_adoption_date) ==
    IF date >= copilot_adoption_date
    THEN get_activity_modifier(date, copilot_adoption_date)
             * developer.persona_config.copilot_multiplier
    ELSE 10000

\* lines 370-429 of generate_developer_activity_for_day, for one outcome rnd
\* of its random draws: the record returned.  int() is taken of the exact
\* product.
activity_record(developer, date, copilot_adoption_date, rnd) ==
    LET modifier10k == activity_modifier(developer, date, copilot_adoption_date)
        commits == IntOf(rnd.base_commits * modifier10k * rnd.u_commits, 1000000)
        prs_opened == IntOf(rnd.base_prs * modifier10k * rnd.u_prs, 1000000)
        prs_reviewed == IntOf(rnd.base_reviews * modifier10k * rnd.u_reviews, 1000000)
        prs_merged == IntOf(prs_opened * rnd.u_merged, 100)
        pr_comments == prs_reviewed * rnd.comments_per_review
        issues_opened == rnd.issues_opened
        issues_closed == rnd.issues_closed
        repos_contributed == Min(Len(developer.repos), rnd.repos)
        total_contributions ==
            commits + prs_opened + prs_merged + prs_reviewed + issues_opened
        code_review_activity == prs_reviewed + pr_comments
        day_str == strftime(date)
        period_days == 1
        record ==
            [day |-> day_str,
             report_start_day |-> day_str,
             report_end_day |-> day_str,
             period_days |-> period_days,
             user_login |-> developer.user_login,
             organization_slug |-> ORGANIZATION_SLUG,
             slug_type |-> SLUG_TYPE,
             last_updated_at |-> "2026-11-01T09:00:00.000000",
             utc_offset |-> "+00:00",
             commit_count |-> commits,
             repos_contributed |-> repos_contributed,
             prs_opened |-> prs_opened,
             prs_merged |-> prs_merged,
             prs_reviewed |-> prs_reviewed,
             pr_comments |-> pr_comments,
             prs_closed |-> prs_merged,
             issues_opened |-> issues_opened,
             issues_closed |-> issues_closed,
             issue_comments |-> rnd.issue_comments,
             total_contributions |-> total_contributions,
             code_review_activity |-> code_review_activity,
             commits_per_day |-> Round2(commits, period_days),
             prs_per_day |-> Round2(prs_opened, period_days),
             reviews_per_day |-> Round2(prs_reviewed, period_days),
             team |-> developer.team,
             primary_language |-> developer.languages[1],
             seniority |-> developer.seniority]
    IN  record @@ [unique_hash |-> generate_unique_hash(record, SimKeyProperties)]

\* the simulated window of generate_all_mock_data
end_date == Today
start_date == end_date - DAYS_OF_DATA
copilot_adoption_date == end_date - COPILOT_ADOPTION_DAYS_AGO

\* get_activity_modifier on every day of the window
InitRamp ==
    /\ prog = "ramp"
    /\ pc = "start"
    /\ \E date \in start_date..end_date :
          sim = [date |-> date, copilot_adoption_date |-> copilot_adoption_date]
    /\ modifier = 0
    /\ activity = [emitted |-> FALSE]
    /\ usage = [emitted |-> FALSE]
    /\ IdleGenerate
    /\ NoData
    /\ IdleLoader
    /\ IdleFetcher
    /\ IdleListing
    /\ IdleHashing

GetActivityModifier ==
    /\ prog = "ramp" /\ pc = "start"
    /\ modifier' = get_activity_modifier(sim.date, sim.copilot_adoption_date)
    /\ pc' = "done"
    /\ UNCHANGED <<prog, fetchVars, listVars, hashVars, sim, activity, usage, genVars,
                   dataVars, loadVars>>

\* the days generate_developer_activity_for_day is called on: a Thursday
\* and a Saturday before the adoption, the adoption day (a Sunday), and the
\* Mondays of week 1, of week 2 and of the ceiling
ActivityDays ==
    {copilot_adoption_date + k : k \in {-80, -1, 0, 1, 8, 57}}

\* the developers it is called for: the first and the last of the roster,
\* in each persona
ActivityDevelopers ==
    {create_developer(i, persona_name, IDES[1], "senior") :
        i \in {0, NUM_DEVELOPERS - 1}, persona_name \in DOMAIN DEVELOPER_PERSONAS}

InitActivityDay ==
    /\ prog = "activity"
    /\ pc = "start"
    /\ \E developer \in ActivityDevelopers, date \in ActivityDays :
          sim = [developer |-> developer, date |-> date,
                 copilot_adoption_date |-> copilot_adoption_date]
    /\ modifier = 0
    /\ activity = [emitted |-> FALSE]
    /\ usage = [emitted |-> FALSE]
    /\ IdleGenerate
    /\ NoData
    /\ IdleLoader
    /\ IdleFetcher
    /\ IdleListing
    /\ IdleHashing

\* generate_developer_activity_for_day: None on most weekend days and on a
\* day off, else the record
GenerateDeveloperActivityForDay ==
    /\ prog = "activity" /\ pc = "start"
    /\ \E weekend_skip \in BOOLEAN, day_off \in BOOLEAN :
          IF (~is_workday(sim.date) /\ weekend_skip) \/ day_off
          THEN activity' = [emitted |-> FALSE] /\ modifier' = modifier
          ELSE LET persona == sim.developer.persona_config IN
               \E base_commits \in randint(persona.base_commits[1], persona.base_commits[2]),
                  base_prs \in randint(persona.base_prs[1], persona.base_prs[2]),
                  base_reviews \in randint(persona.base_reviews[1], persona.base_reviews[2]),
                  u_commits \in uniform(80, 120), u_prs \in uniform(70, 130),
                  u_reviews \in uniform(80, 120), u_merged \in uniform(60, 90),
                  comments_per_review \in randint(1, 4),
                  issues_opened \in 0..2, repos \in randint(1, 3) :
               \E issues_closed \in randint(0, issues_opened + 1),
                  issue_comments \in randint(0, issues_opened * 2) :
               \E record \in {activity_record(sim.developer, sim.date,
                                  sim.copilot_adoption_date,
                                  [base_commits |-> base_commits, base_prs |-> base_prs,
                                   base_reviews |-> base_reviews, u_commits |-> u_commits,
                                   u_prs |-> u_prs, u_reviews |-> u_reviews,
                                   u_merged |-> u_merged,
                                   comments_per_review |-> comments_per_review,
                                   issues_opened |-> issues_opened, repos |-> repos,
                                   issues_closed |-> issues_closed,
                                   issue_comments |-> issue_comments])} :
                  /\ activity' = [emitted |-> TRUE, record |-> record]
                  /\ modifier' = activity_modifier(sim.developer, sim.date,
                                      sim.copilot_adoption_date)
    /\ pc' = "done"
    /\ UNCHANGED <<prog, fetchVars, listVars, hashVars, sim, usage, genVars, dataVars,
                   loadVars>>

MODELS == <<"gpt-4o", "gpt-4o-mini", "claude-3.5-sonnet", "o1-preview">>

\* `"code" in feature`: of the features a persona can have, code_completion
\* alone contains the substring
CodeInFeature(feature) == feature \in {"code_completion"}

\* available_features[:2]
FirstTwo(seq) == SubSeq(seq, 1, Min(2, Len(seq)))

\* min(1.0, 0.3 + (days_since_adoption / 28) * 0.7) as the fraction
\* <<numerator, denominator>>: 0.3 + 0.7 d / 28 is (12 + d) / 40
usage_multiplier(days_since_adoption) ==
    IF 12 + days_since_adoption >= 40 THEN <<1, 1>> ELSE <<12 + days_since_adoption, 40>>

\* the pairs <<days_since_adoption, draw>> of the ramp for which the double
\* draw * (0.3 + (days_since_adoption / 28) * 0.7) lies just below the
\* integer the exact product is, so that int() gives one less: at 14 days
\* the multiplier is 0.6499999999999999 and int(80 * it) is 51, not 52
TruncatedBelow ==
    {<<4, 20>>, <<4, 30>>, <<4, 35>>, <<4, 40>>, <<4, 55>>, <<4, 60>>, <<4, 65>>,
     <<4, 70>>, <<4, 75>>, <<4, 80>>, <<6, 60>>, <<14, 20>>, <<14, 40>>, <<14, 60>>,
     <<14, 80>>, <<15, 40>>, <<15, 80>>, <<17, 40>>, <<17, 80>>, <<19, 40>>,
     <<19, 80>>, <<22, 20>>, <<22, 40>>, <<22, 60>>, <<22, 80>>, <<24, 30>>,
     <<24, 50>>, <<24, 60>>, <<24, 70>>, <<27, 40>>, <<27, 80>>}

\* int(draw * usage_multiplier), lines 221-222
ramped(draw, days_since_adoption) ==
    LET um == usage_multiplier(days_since_adoption)
    IN  IntOf(draw * um[1], um[2])
        - (IF <<days_since_adoption, draw>> \in TruncatedBelow THEN 1 ELSE 0)

\* mutant: the bonuses given from the 14th and the 28th day on
improved_acceptance_rate_AtTheMarks(acceptance_rate, days_since_adoption) ==
    Min(acceptance_rate
            + (IF days_since_adoption >= 14 THEN 2 ELSE 0)
            + (IF days_since_adoption >= 28 THEN 2 ELSE 0), 45)

\* lines 229-237: the drawn acceptance rate (in hundredths) with its
\* bonuses and its cap
improved_acceptance_rate(acceptance_rate, days_since_adoption) ==
    Min(acceptance_rate
            + (IF days_since_adoption > 14 THEN 2 ELSE 0)
            + (IF days_since_adoption > 28 THEN 2 ELSE 0), 45)

\* lines 214-347 of generate_copilot_metrics_for_day, for one outcome rnd of
\* its random draws: the record returned.  A share is the fraction
\* <<numerator, denominator>>; int() is taken of the exact product, which
\* is what the floating-point product truncates to on the draws taken here.
usage_record(developer, date, adoption_date, rnd) ==
    LET persona == developer.persona_config
        days_since_adoption == date - adoption_date
        interactions == ramped(rnd.interactions, days_since_adoption)
        code_gen == ramped(rnd.code_gen, days_since_adoption)
        acceptance_rate ==
            improved_acceptance_rate(rnd.acceptance_rate, days_since_adoption)
        code_acceptance == IntOf(code_gen * acceptance_rate, 100)
        loc_suggested == code_gen * rnd.loc_per_gen
        loc_added == IntOf(loc_suggested * acceptance_rate * rnd.u_added, 10000)
        ide == developer.primary_ide
        totals_by_ide ==
            << [ide |-> ide.name,
                user_initiated_interaction_count |-> interactions,
                code_generation_activity_count |-> code_gen,
                code_acceptance_activity_count |-> code_acceptance,
                loc_suggested_to_add_sum |-> loc_suggested,
                loc_suggested_to_delete_sum |-> IntOf(loc_suggested, 10),
                loc_added_sum |-> loc_added,
                loc_deleted_sum |-> IntOf(loc_added, 10)] >>
        available_features == persona.features
        feature_share(feature) ==
            IF feature = "code_completion" THEN <<1, 2>>
            ELSE <<1, Len(available_features)>>
        coded(feature, numerator, denominator) ==
            IF CodeInFeature(feature) THEN IntOf(numerator, denominator) ELSE 0
        totals_by_feature ==
            [k \in 1..Len(available_features) |->
                LET feature == available_features[k]
                    sh == feature_share(feature)
                IN  [feature |-> feature,
                     user_initiated_interaction_count |->
                         IntOf(interactions * sh[1], sh[2]),
                     code_generation_activity_count |->
                         coded(feature, code_gen * sh[1], sh[2]),
                     code_acceptance_activity_count |->
                         coded(feature, code_acceptance * sh[1], sh[2]),
                     loc_suggested_to_add_sum |->
                         coded(feature, loc_suggested * sh[1], sh[2]),
                     loc_suggested_to_delete_sum |->
                         coded(feature, loc_suggested * sh[1], 10 * sh[2]),
                     loc_added_sum |-> coded(feature, loc_added * sh[1], sh[2]),
                     loc_deleted_sum |-> coded(feature, loc_added * sh[1], 10 * sh[2])]]
        languages == developer.languages
        by_language(lang, share) ==
            [language |-> lang,
             code_generation_activity_count |-> IntOf(code_gen, share),
             code_acceptance_activity_count |-> IntOf(code_acceptance, share),
             loc_suggested_to_add_sum |-> IntOf(loc_suggested, share),
             loc_suggested_to_delete_sum |-> IntOf(loc_suggested, 10 * share),
             loc_added_sum |-> IntOf(loc_added, share),
             loc_deleted_sum |-> IntOf(loc_added, 10 * share)]
        totals_by_language_model ==
            [k \in 1..Len(languages) |->
                by_language(languages[k], Len(languages)) @@ [model |-> rnd.models[k]]]
        top == FirstTwo(available_features)
        totals_by_language_feature ==
            [k \in 1..(Len(languages) * Len(top)) |->
                by_language(languages[((k - 1) \div Len(top)) + 1], Len(languages) * 2)
                    @@ [feature |-> top[((k - 1) % Len(top)) + 1]]]
        day_str == strftime(date)
        record ==
            [day |-> day_str,
             report_start_day |-> day_str,
             report_end_day |-> day_str,
             user_id |-> developer.user_id,
             user_login |-> developer.user_login,
             organization_slug |-> ORGANIZATION_SLUG,
             slug_type |-> SLUG_TYPE,
             last_updated_at |-> "2026-11-01T09:00:00.000000",
             utc_offset |-> "+00:00",
             user_initiated_interaction_count |-> interactions,
             code_generation_activity_count |-> code_gen,
             code_acceptance_activity_count |-> code_acceptance,
             used_agent |-> rnd.used_agent,
             used_chat |-> rnd.used_chat,
             loc_suggested_to_add_sum |-> loc_suggested,
             loc_suggested_to_delete_sum |-> IntOf(loc_suggested, 10),
             loc_added_sum |-> loc_added,
             loc_deleted_sum |-> IntOf(loc_added, 10),
             totals_by_ide |-> totals_by_ide,
             totals_by_feature |-> totals_by_feature,
             totals_by_language_model |-> totals_by_language_model,
             totals_by_language_feature |-> totals_by_language_feature,
             top_model |-> rnd.top_model,
             top_language |-> languages[1],
             top_feature |-> "code_completion"]
    IN  record @@ [unique_hash |-> generate_unique_hash(record, SimKeyProperties)]

\* the days generate_copilot_metrics_for_day is called on: two days before
\* the adoption, the adoption day, the 14-day and 28-day marks, and days
\* before, between and after them
UsageDays ==
    {copilot_adoption_date + k : k \in {-80, -1, 0, 8, 14, 20, 28, 57}}

\* the outcomes sampled for the random.choice(MODELS) of each language
ModelDraws(languages) ==
    { [k \in 1..Len(languages) |-> MODELS[1]],
      [k \in 1..Len(languages) |-> MODELS[((k - 1) % Len(MODELS)) + 1]] }

InitUsageDay ==
    /\ prog = "usage"
    /\ pc = "start"
    /\ \E developer \in ActivityDevelopers, date \in UsageDays :
          sim = [developer |-> developer, date |-> date,
                 copilot_adoption_date |-> copilot_adoption_date]
    /\ modifier = 0
    /\ activity = [emitted |-> FALSE]
    /\ usage = [emitted |-> FALSE]
    /\ IdleGenerate
    /\ NoData
    /\ IdleLoader
    /\ IdleFetcher
    /\ IdleListing
    /\ IdleHashing

\* generate_copilot_metrics_for_day: None before the adoption, on a day the
\* developer does not use the assistant and on most weekend days, else the
\* record
GenerateCopilotMetricsForDay ==
    /\ prog = "usage" /\ pc = "start"
    /\ \E not_today \in BOOLEAN, weekend_skip \in BOOLEAN :
          IF \/ sim.date < sim.copilot_adoption_date
             \/ not_today
             \/ (~is_workday(sim.date) /\ weekend_skip)
          THEN usage' = [emitted |-> FALSE]
          ELSE LET persona == sim.developer.persona_config IN
               \E interactions \in randint(20, 60), code_gen \in randint(30, 80),
                  acceptance_rate \in uniform(persona.acceptance_rate_range[1],
                                              persona.acceptance_rate_range[2]),
                  loc_per_gen \in randint(3, 12), u_added \in uniform(80, 100),
                  used_agent \in BOOLEAN, used_chat \in BOOLEAN,
                  models \in ModelDraws(sim.developer.languages),
                  top_model \in {MODELS[1], MODELS[4]} :
                  /\ used_agent =>
                        \E k \in 1..Len(persona.features) :
                            persona.features[k] = "chat_panel_agent_mode"
                  /\ used_chat =>
                        \E k \in 1..Len(persona.features) :
                            persona.features[k] = "chat_panel_ask_mode"
                  /\ usage' = [emitted |-> TRUE,
                               drawn_rate |-> acceptance_rate,
                               record |-> usage_record(sim.developer, sim.date,
                                   sim.copilot_adoption_date,
                                   [interactions |-> interactions, code_gen |-> code_gen,
                                    acceptance_rate |-> acceptance_rate,
                                    loc_per_gen |-> loc_per_gen, u_added |-> u_added,
                                    used_agent |-> used_agent, used_chat |-> used_chat,
                                    models |-> models, top_model |-> top_model])]
    /\ pc' = "done"
    /\ UNCHANGED <<prog, fetchVars, listVars, hashVars, sim, modifier, activity, genVars,
                   dataVars, loadVars>>

InitSim == InitRamp \/ InitActivityDay \/ InitUsageDay

NextSim ==
    GetActivityModifier \/ GenerateDeveloperActivityForDay \/ GenerateCopilotMetricsForDay

SpecSim == InitSim /\ [][NextSim]_vars

(***************************** generate_all_mock_data ***********************)
MaxRunDays == 2         \* days of the window the loop is followed over
MaxRunDevelopers == 2   \* developers of the roster the loop is followed over

\* the lowest and the highest outcome of every draw of
\* generate_developer_activity_for_day
LowActivityDraws(persona) ==
    [base_commits |-> persona.base_commits[1], base_prs |-> persona.base_prs[1],
     base_reviews |-> persona.base_reviews[1], u_commits |-> 80, u_prs |-> 70,
     u_reviews |-> 80, u_merged |-> 60, comments_per_review |-> 1,
     issues_opened |-> 0, repos |-> 1, issues_closed |-> 0, issue_comments |-> 0]

HighActivityDraws(persona) ==
    [base_commits |-> persona.base_commits[2], base_prs |-> persona.base_prs[2],
     base_reviews |-> persona.base_reviews[2], u_commits |-> 120, u_prs |-> 130,
     u_reviews |-> 120, u_merged |-> 90, comments_per_review |-> 4,
     issues_opened |-> 2, repos |-> 3, issues_closed |-> 3, issue_comments |-> 4]

\* the same for generate_copilot_metrics_for_day
LowUsageDraws(developer) ==
    [interactions |-> 20, code_gen |-> 30,
     acceptance_rate |-> developer.persona_config.acceptance_rate_range[1],
     loc_per_gen |-> 3, u_added |-> 80, used_agent |-> FALSE, used_chat |-> FALSE,
     models |-> [k \in 1..Len(developer.languages) |-> MODELS[1]],
     top_model |-> MODELS[1]]

HighUsageDraws(developer) ==
    [interactions |-> 60, code_gen |-> 80,
     acceptance_rate |-> developer.persona_config.acceptance_rate_range[2],
     loc_per_gen |-> 12, u_added |-> 100, used_agent |-> FALSE, used_chat |-> FALSE,
     models |-> [k \in 1..Len(developer.languages) |-> MODELS[4]],
     top_model |-> MODELS[4]]

None == [emitted |-> FALSE]

\* what generate_copilot_metrics_for_day can return: None, or (from the
\* adoption day on) a record, here the one of the lowest draws
generate_copilot_metrics_for_day(developer, date, adoption_date) ==
    {None} \cup
    (IF date < adoption_date THEN {}
     ELSE {[emitted |-> TRUE,
            record |-> usage_record(developer, date, adoption_date,
                           LowUsageDraws(developer))]})

\* what generate_developer_activity_for_day can return: None, or a record,
\* here the one of the lowest draws
generate_developer_activity_for_day(developer, date, adoption_date) ==
    {None,
     [emitted |-> TRUE,
      record |-> activity_record(developer, date, adoption_date,
                     LowActivityDraws(developer.persona_config))]}

\* mutant: a record put at the head of its list
collect_AtFront(list, returned) ==
    IF returned.emitted THEN <<returned.record>> \o list ELSE list

\* `if metrics: copilot_metrics.append(metrics)`, and the same for activity
collect(list, returned) ==
    IF returned.emitted THEN Append(list, returned.record) ELSE list

\* the first n developers create_developers builds, for two outcomes of the
\* persona draw
RunRosters ==
    { [k \in 1..MaxRunDevelopers |-> create_developer(k - 1, "regular", IDES[1], "mid")],
      [k \in 1..MaxRunDevelopers |->
          create_developer(k - 1,
              <<"power_user", "occasional", "skeptic", "regular">>[((k - 1) % 4) + 1],
              IDES[2], "senior")] }

\* the days the loop is followed over: from the day before the adoption
run_start == copilot_adoption_date - 1
run_end == run_start + MaxRunDays - 1

InitGenerate ==
    /\ prog = "generate"
    /\ pc = "loop"
    /\ developers \in RunRosters
    /\ current_date = run_start
    /\ developer_idx = 1
    /\ visited = <<>>
    /\ NoData
    /\ IdleDay
    /\ IdleLoader
    /\ IdleFetcher
    /\ IdleListing
    /\ IdleHashing

\* lines 465-482: the body of `for developer in developers`
GenerateForDeveloper ==
    /\ prog = "generate" /\ pc = "loop"
    /\ current_date <= run_end /\ developer_idx <= Len(developers)
    /\ \E metrics \in generate_copilot_metrics_for_day(developers[developer_idx],
                          current_date, copilot_adoption_date),
          returned \in generate_developer_activity_for_day(developers[developer_idx],
                          current_date, copilot_adoption_date) :
          /\ copilot_metrics' = collect(copilot_metrics, metrics)
          /\ developer_activity' = collect(developer_activity, returned)
    /\ visited' = Append(visited, <<current_date, developer_idx>>)
    /\ developer_idx' = developer_idx + 1
    /\ UNCHANGED <<prog, pc, developers, current_date, fetchVars, listVars, hashVars,
                   dayVars, loadVars>>

\* line 484: current_date += timedelta(days=1), the roster done
NextDay ==
    /\ prog = "generate" /\ pc = "loop"
    /\ current_date <= run_end /\ developer_idx > Len(developers)
    /\ current_date' = current_date + 1
    /\ developer_idx' = 1
    /\ UNCHANGED <<prog, pc, developers, visited, dataVars, fetchVars, listVars,
                   hashVars, dayVars, loadVars>>

\* lines 486-490: the window done, both lists returned
ReturnMockData ==
    /\ prog = "generate" /\ pc = "loop"
    /\ current_date > run_end
    /\ pc' = "returned"
    /\ UNCHANGED <<prog, genVars, dataVars, fetchVars, listVars, hashVars, dayVars,
                   loadVars>>

NextGenerate == GenerateForDeveloper \/ NextDay \/ ReturnMockData

SpecGenerate == InitGenerate /\ [][NextGenerate]_vars

(***************************** main and load_to_elasticsearch ***************)
MaxRuns == 2         \* times the script is run against the same sink
MaxLoadFaults == 1   \* most requests of a behaviour that do not succeed
MaxRerunRecords == 4 \* longest list of a second run

INDEX_USER_METRICS == "copilot_user_metrics"
INDEX_DEVELOPER_ACTIVITY == "developer_activity"
batch_size == 500

MappingFileOf(index_name) ==
    IF index_name = INDEX_USER_METRICS THEN "copilot_user_metrics_mapping.json"
    ELSE "developer_activity_mapping.json"

\* the developers and days of the short lists: a day before the adoption
\* and one after it
LoadDevelopers ==
    << create_developer(0, "regular", IDES[1], "mid"),
       create_developer(1, "power_user", IDES[2], "senior") >>

LoadDays == <<copilot_adoption_date - 3, copilot_adoption_date + 1>>

\* three samples of the draws of a record: the low ends, the high ends,
\* and the high bases with the low factors
ActivityDraws(kind, persona) ==
    IF kind = "low" THEN LowActivityDraws(persona)
    ELSE IF kind = "high" THEN HighActivityDraws(persona)
    ELSE [HighActivityDraws(persona) EXCEPT !.u_commits = 80, !.u_prs = 70,
                                            !.u_reviews = 80, !.u_merged = 60]

UsageDraws(kind, developer) ==
    IF kind = "low" THEN LowUsageDraws(developer)
    ELSE IF kind = "high" THEN HighUsageDraws(developer)
    ELSE [HighUsageDraws(developer) EXCEPT !.loc_per_gen = 3, !.u_added = 80]

\* developer_activity as generate_all_mock_data builds it when every visit
\* of the given days returns a record
ActivityList(roster, days, n, kind) ==
    [k \in 1..n |->
        LET developer == roster[((k - 1) % Len(roster)) + 1]
        IN  activity_record(developer, days[((k - 1) \div Len(roster)) + 1],
                copilot_adoption_date, ActivityDraws(kind, developer.persona_config))]

\* copilot_metrics likewise
UsageList(roster, days, n, kind) ==
    [k \in 1..n |->
        LET developer == roster[((k - 1) % Len(roster)) + 1]
        IN  usage_record(developer, days[((k - 1) \div Len(roster)) + 1],
                copilot_adoption_date, UsageDraws(kind, developer))]

\* the whole roster of create_developers, every persona draw "regular"
FullRoster ==
    [k \in 1..NUM_DEVELOPERS |-> create_developer(k - 1, "regular", IDES[1], "mid")]

DaysFrom(first) == [k \in 1..(end_date - first + 1) |-> first + k - 1]

\* the pairs (copilot_metrics, developer_activity) main hands to the
\* loader: short lists, empty lists, and lists of one, two and three
\* batches
ShortLists ==
    { << UsageList(LoadDevelopers, Tail(LoadDays), 2, kind),
         ActivityList(LoadDevelopers, LoadDays, 4, kind) >> :
         kind \in {"low", "high", "mixed"} }
    \cup { << <<>>, <<>> >>,
           << <<>>, ActivityList(LoadDevelopers, Tail(LoadDays), 2, "low") >> }

LongLists ==
    { << <<>>, ActivityList(FullRoster, DaysFrom(start_date), n, "low") >> :
         n \in {batch_size, 2 * batch_size + 1} }
    \cup { << UsageList(FullRoster, DaysFrom(copilot_adoption_date), batch_size + 1, "low"),
              <<>> >> }

LoadLists == ShortLists \cup LongLists

KeysOf(list) ==
    [k \in 1..Len(list) |->
        <<list[k].organization_slug, list[k].user_login, list[k].report_start_day,
          list[k].report_end_day>>]

InitMain ==
    /\ prog = "main"
    /\ pc = "summary"
    /\ \E lists \in LoadLists :
          copilot_metrics = lists[1] /\ developer_activity = lists[2]
    /\ mapping_files \in
          {{}, {MappingFileOf(INDEX_USER_METRICS), MappingFileOf(INDEX_DEVELOPER_ACTIVITY)}}
    /\ calls = <<>>
    /\ sink = [index \in {INDEX_USER_METRICS, INDEX_DEVELOPER_ACTIVITY} |-> <<>>]
    /\ batch_i = 0
    /\ indexed = 0
    /\ errors = 0
    /\ totals = <<>>
    /\ success = "none"
    /\ exit_status = -1
    /\ runs = 1
    /\ load_faults = 0
    /\ IdleDay
    /\ IdleGenerate
    /\ IdleFetcher
    /\ IdleListing
    /\ IdleHashing

\* an uncaught exception ends the process
Raises == pc' = "exited" /\ exit_status' = 1

\* the records of a list on the days before (after = FALSE) or from
\* (after = TRUE) the adoption date
AdoptionSide(list, after) ==
    SelectSeq(list, LAMBDA a : (strptime(a.day) >= copilot_adoption_date) = after)

\* print_data_summary divides by the total of code generations, and by the
\* pre-adoption averages of commits and of pull requests
summary_raises(metrics, activities) ==
    LET pre_adoption == AdoptionSide(activities, FALSE)
        post_adoption == AdoptionSide(activities, TRUE)
    IN  \/ /\ metrics # <<>>
           /\ SumOf(metrics, "code_generation_activity_count", Len(metrics)) = 0
        \/ /\ pre_adoption # <<>> /\ post_adoption # <<>>
           /\ \/ SumOf(pre_adoption, "commit_count", Len(pre_adoption)) = 0
              \/ SumOf(pre_adoption, "prs_opened", Len(pre_adoption)) = 0

\* main, lines 648-651: the lists are generated; print_data_summary
PrintDataSummary ==
    /\ prog = "main" /\ pc = "summary"
    /\ IF summary_raises(copilot_metrics, developer_activity)
       THEN Raises
       ELSE pc' = "health" /\ UNCHANGED exit_status
    /\ UNCHANGED <<prog, dataVars, mapping_files, calls, sink, batch_i, indexed, errors,
                   totals, success, runs, load_faults, fetchVars, listVars, hashVars,
                   dayVars, genVars>>

Call(op, index, ids, outcome) == [op |-> op, index |-> index, ids |-> ids, outcome |-> outcome]

\* what the health request can come to: 200, another status, a
\* requests.exceptions.ConnectionError, or another exception of requests.get
\* (InvalidSchema for a URL without scheme, ChunkedEncodingError, ...)
HealthOutcomes == {"200", "non200", "ConnectionError", "exception"}

\* lines 500-508: the outcomes on which load_to_elasticsearch returns False
HealthFailed(outcome) == outcome \in {"non200", "ConnectionError"}

\* load_to_elasticsearch, lines 497-508: the connectivity check
CheckConnection ==
    /\ prog = "main" /\ pc = "health"
    /\ \E outcome \in HealthOutcomes :
          /\ outcome # "200" => load_faults < MaxLoadFaults
          /\ load_faults' = load_faults + (IF outcome = "200" THEN 0 ELSE 1)
          /\ calls' = Append(calls, Call("health", "", <<>>, outcome))
          /\ IF outcome = "exception"
             THEN Raises /\ UNCHANGED success
             ELSE IF HealthFailed(outcome)
             THEN pc' = "return" /\ success' = "False" /\ UNCHANGED exit_status
             ELSE pc' = "setup_usage" /\ UNCHANGED <<success, exit_status>>
    /\ UNCHANGED <<prog, dataVars, mapping_files, sink, batch_i, indexed, errors, totals,
                   runs, fetchVars, listVars, hashVars, dayVars, genVars>>

IndexAt(position) ==
    IF position \in {"setup_usage", "bulk_usage"} THEN INDEX_USER_METRICS
    ELSE INDEX_DEVELOPER_ACTIVITY

\* mutant: the index created first and deleted after
ensure_requests_CreateFirst(index_name, deleted, created) ==
    (IF MappingFileOf(index_name) \in mapping_files
     THEN <<Call("create", index_name, <<>>, created)>> ELSE <<>>)
    \o <<Call("delete", index_name, <<>>, deleted)>>

\* ensure_index_with_mapping: the requests it sends when neither raises
ensure_requests(index_name, deleted, created) ==
    <<Call("delete", index_name, <<>>, deleted)>>
    \o (IF MappingFileOf(index_name) \in mapping_files
        THEN <<Call("create", index_name, <<>>, created)>> ELSE <<>>)

\* ensure_index_with_mapping(index_name, mapping_file), lines 515-542: the
\* delete, then the create when the mapping file exists; a request that
\* raises is not caught
EnsureIndexWithMapping ==
    /\ prog = "main" /\ pc \in {"setup_usage", "setup_activity"}
    /\ \E deleted \in {"200", "non200", "exception"},
          created \in {"200", "non2xx", "exception"} :
          LET index_name == IndexAt(pc)
              has_mapping == MappingFileOf(index_name) \in mapping_files
              faulty == (IF deleted = "exception" THEN 1 ELSE 0)
                        + (IF has_mapping /\ deleted # "exception" /\ created # "200"
                           THEN 1 ELSE 0)
          IN  /\ (~has_mapping \/ deleted = "exception") => created = "200"
              /\ load_faults + faulty <= MaxLoadFaults
              /\ load_faults' = load_faults + faulty
              /\ sink' = IF deleted = "200" THEN [sink EXCEPT ![index_name] = <<>>]
                         ELSE sink
              /\ IF deleted = "exception"
                 THEN /\ calls' = Append(calls, Call("delete", index_name, <<>>, deleted))
                      /\ Raises
                 ELSE /\ calls' = calls \o ensure_requests(index_name, deleted, created)
                      /\ IF has_mapping /\ created = "exception"
                         THEN Raises
                         ELSE /\ pc' = IF pc = "setup_usage" THEN "setup_activity"
                                       ELSE "bulk_usage"
                              /\ UNCHANGED exit_status
    /\ UNCHANGED <<prog, dataVars, mapping_files, batch_i, indexed, errors, totals,
                   success, runs, fetchVars, listVars, hashVars, dayVars, genVars>>

RecordsAt(position) ==
    IF position = "bulk_usage" THEN copilot_metrics ELSE developer_activity

\* mutant: the document id taken from the day alone
BulkActionId_Day(record) == record.day

\* line 556: the _id of a record's action line
BulkActionId(record) == record.unique_hash

\* the documents of an index after the `index` actions of the records at
\* the positions `stored` of a batch, applied in order: an action writes
\* the document of its _id, and Elasticsearch counts the writes of a
\* document in its _version
Upsert(docs, batch, ids, stored) ==
    LET written == {ids[k] : k \in stored}
    IN  [id \in DOMAIN docs \cup written |->
            IF id \in written
            THEN [_source |->
                     batch[CHOOSE k \in stored :
                              ids[k] = id /\ \A j \in stored : ids[j] = id => j <= k],
                  _version |->
                     (IF id \in DOMAIN docs THEN docs[id]._version ELSE 0)
                     + Cardinality({k \in stored : ids[k] = id})]
            ELSE docs[id]]

\* what a _bulk request can come to: 200 with no item in error, 200 with
\* the first or with every item in error, another status, or an exception
\* (raised before or after Elasticsearch applied the request)
BulkOutcomes(batch) ==
    {[kind |-> "200", failed |-> {}, stored |-> 1..Len(batch)]}
    \cup {[kind |-> "200", failed |-> F, stored |-> (1..Len(batch)) \ F] :
              F \in {{1}, 1..Len(batch)}}
    \cup {[kind |-> "non2xx", failed |-> {}, stored |-> {}]}
    \cup {[kind |-> "exception", failed |-> {}, stored |-> S] :
              S \in {{}, 1..Len(batch)}}

\* mutant: a batch that fails ends the loop
NextBatch_StopOnFailure(outcome, total) ==
    IF outcome.kind = "200" /\ outcome.failed = {} THEN batch_i + batch_size ELSE total

\* range(0, total, batch_size): the offset of the batch after this one
NextBatch(outcome, total) == batch_i + batch_size

\* bulk_index, lines 550-581: one batch of the loop
BulkBatch ==
    /\ prog = "main" /\ pc \in {"bulk_usage", "bulk_activity"}
    /\ batch_i < Len(RecordsAt(pc))
    /\ LET records == RecordsAt(pc)
           total == Len(records)
           batch == SubSeq(records, batch_i + 1, Min(batch_i + batch_size, total))
       IN  \E outcome \in BulkOutcomes(batch),
              ids \in {[k \in 1..Len(batch) |-> BulkActionId(batch[k])] \o <<>>} :
              LET ok == outcome.kind = "200"
                  clean == ok /\ outcome.failed = {}
                  batch_errors == Cardinality(outcome.failed)
              IN  /\ ~clean => load_faults < MaxLoadFaults
                  /\ load_faults' = load_faults + (IF clean THEN 0 ELSE 1)
                  /\ calls' = Append(calls,
                         Call("bulk", IndexAt(pc), ids, outcome.kind))
                  /\ sink' = [sink EXCEPT
                                ![IndexAt(pc)] = Upsert(@, batch, ids, outcome.stored)]
                  /\ errors' = errors + (IF ok THEN batch_errors ELSE Len(batch))
                  /\ indexed' = indexed + (IF ok THEN Len(batch) - batch_errors ELSE 0)
                  /\ batch_i' = NextBatch(outcome, total)
    /\ UNCHANGED <<prog, pc, dataVars, mapping_files, totals, success, exit_status, runs,
                   fetchVars, listVars, hashVars, dayVars, genVars>>

\* bulk_index, line 583, and its caller: return indexed, errors
BulkReturn ==
    /\ prog = "main" /\ pc \in {"bulk_usage", "bulk_activity"}
    /\ batch_i >= Len(RecordsAt(pc))
    /\ totals' = Append(totals, <<indexed, errors>>)
    /\ batch_i' = 0
    /\ indexed' = 0
    /\ errors' = 0
    /\ pc' = IF pc = "bulk_usage" THEN "bulk_activity" ELSE "refresh"
    /\ UNCHANGED <<prog, dataVars, mapping_files, calls, sink, success, exit_status, runs,
                   load_faults, fetchVars, listVars, hashVars, dayVars, genVars>>

\* lines 595-601: the two refresh requests (a request that raises is not
\* caught), then return True
RefreshIndices ==
    /\ prog = "main" /\ pc = "refresh"
    /\ \E first \in {"200", "exception"}, second \in {"200", "exception"} :
          LET faulty == IF first = "200" /\ second = "200" THEN 0 ELSE 1 IN
          /\ first = "exception" => second = "200"
          /\ load_faults + faulty <= MaxLoadFaults
          /\ load_faults' = load_faults + faulty
          /\ calls' = calls \o <<Call("refresh", INDEX_USER_METRICS, <<>>, first)>>
                        \o (IF first = "exception" THEN <<>>
                            ELSE <<Call("refresh", INDEX_DEVELOPER_ACTIVITY, <<>>, second)>>)
          /\ IF faulty = 1
             THEN Raises /\ UNCHANGED success
             ELSE pc' = "return" /\ success' = "True" /\ UNCHANGED exit_status
    /\ UNCHANGED <<prog, dataVars, mapping_files, sink, batch_i, indexed, errors, totals,
                   runs, fetchVars, listVars, hashVars, dayVars, genVars>>

\* lines 672-676: main returns success and `main()` drops the value, so the
\* interpreter exits with status 0
ExitStatusOf(returned) == 0

MainReturn ==
    /\ prog = "main" /\ pc = "return"
    /\ exit_status' = ExitStatusOf(success)
    /\ pc' = "exited"
    /\ UNCHANGED <<prog, dataVars, mapping_files, calls, sink, batch_i, indexed, errors,
                   totals, success, runs, load_faults, fetchVars, listVars, hashVars,
                   dayVars, genVars>>

\* the script run again against the same Elasticsearch: new draws for the
\* same developers and days
RunAgain ==
    /\ prog = "main" /\ pc = "exited" /\ runs < MaxRuns
    /\ Len(copilot_metrics) <= MaxRerunRecords
    /\ Len(developer_activity) <= MaxRerunRecords
    /\ \E lists \in ShortLists :
          /\ KeysOf(lists[1]) = KeysOf(copilot_metrics)
          /\ KeysOf(lists[2]) = KeysOf(developer_activity)
          /\ copilot_metrics' = lists[1]
          /\ developer_activity' = lists[2]
    /\ runs' = runs + 1
    /\ pc' = "summary"
    /\ calls' = <<>>
    /\ totals' = <<>>
    /\ success' = "none"
    /\ exit_status' = -1
    /\ batch_i' = 0
    /\ indexed' = 0
    /\ errors' = 0
    /\ UNCHANGED <<prog, mapping_files, sink, load_faults, fetchVars, listVars, hashVars,
                   dayVars, genVars>>

NextMain ==
    \/ PrintDataSummary
    \/ CheckConnection
    \/ EnsureIndexWithMapping
    \/ BulkBatch
    \/ BulkReturn
    \/ RefreshIndices
    \/ MainReturn
    \/ RunAgain

SpecLoad == InitMain /\ [][NextMain]_vars

(***************************** main, from generation to exit ****************)
\* main, lines 647-648: generate_all_mock_data has returned its lists; the
\* summary and the load of these lists follow
MainGenerated ==
    /\ prog = "generate" /\ pc = "returned"
    /\ prog' = "main"
    /\ pc' = "summary"
    /\ mapping_files' \in
          {{}, {MappingFileOf(INDEX_USER_METRICS), MappingFileOf(INDEX_DEVELOPER_ACTIVITY)}}
    /\ calls' = <<>>
    /\ sink' = [index \in {INDEX_USER_METRICS, INDEX_DEVELOPER_ACTIVITY} |-> <<>>]
    /\ batch_i' = 0
    /\ indexed' = 0
    /\ errors' = 0
    /\ totals' = <<>>
    /\ success' = "none"
    /\ exit_status' = -1
    /\ runs' = 1
    /\ load_faults' = 0
    /\ UNCHANGED <<dataVars, genVars, dayVars, fetchVars, listVars, hashVars>>

NextRun ==
    \/ GenerateForDeveloper
    \/ NextDay
    \/ ReturnMockData
    \/ MainGenerated
    \/ PrintDataSummary
    \/ CheckConnection
    \/ EnsureIndexWithMapping
    \/ BulkBatch
    \/ BulkReturn
    \/ RefreshIndices
    \/ MainReturn

SpecRun == InitGenerate /\ [][NextRun]_vars

\* both producers of ActivityRecords
InitRecords == InitFetch \/ InitActivityDay

NextRecords == NextFetch \/ GenerateDeveloperActivityForDay

SpecRecords == InitRecords /\ [][NextRecords]_vars

(***************************** claims ***************************************)
Last(seq) == seq[Len(seq)]

RecordLogins(records) == [i \in 1..Len(records) |-> records[i].user_login]

FailedKinds == {"non200", "error"}

\* C1: the fetcher's public entry point never raises: whatever the roster,
\* days_back, save_to_json and the outcome of every API call and of the JSON
\* save, it returns a list.
C1_NeverRaises ==
    prog = "fetcher" => result.state # "raised"

C9_FailedQueryCountsZero ==
    (prog = "fetcher" /\ log.member > 0) =>
      LET run(resps) ==
              process_member(members[log.member], args.organization_slug,
                  slug_type(args.is_standalone), dates.since_date,
                  dates.until_date, args.days_back, resps)
          failed(q) == log.resps[q].kind \in FailedKinds
      IN  /\ \A q \in 1..8 : failed(q) =>
                LET alt == run([log.resps EXCEPT ![q] = OkCount(0)])
                IN  /\ alt.raised = log.raised
                    /\ alt.issued = log.issued
                    /\ ~log.raised =>
                          /\ alt.record = Last(all_records)
                          /\ Last(all_records)[Queries[q]] = 0
          /\ ( /\ args.days_back > 0
               /\ \A q \in 0..8 : log.resps[q].kind \in FailedKinds \cup {"ok"} )
             => /\ ~log.raised
                /\ log.issued = Queries
                /\ \A q \in 1..8 :
                      Last(all_records)[Queries[q]]
                          = IF failed(q) THEN 0 ELSE log.resps[q].total

C9_Witness ==
    /\ prog = "fetcher" /\ log.member > 0 /\ ~log.raised
    /\ log.resps[2].kind = "non200" /\ log.resps[6].kind = "error"
    /\ Last(all_records).prs_opened = 0 /\ Last(all_records).prs_merged = 2
    /\ Last(all_records).issues_opened = 0 /\ Last(all_records).issue_comments = 2

RECURSIVE ItemsUpTo(_, _)
\* the entries of pages 1..k of a source, concatenated
ItemsUpTo(src, k) == IF k = 0 THEN <<>> ELSE ItemsUpTo(src, k - 1) \o src[k].items

PageSizesOf(src) == [p \in 1..Len(src) |-> Len(src[p].items)]

Ceil(a, b) == (a + b - 1) \div b

\* a source as C3 describes it: every page answers, no page is longer than
\* per_page, and the last page is shorter than per_page
ShortLastPage(src) ==
    /\ \A p \in 1..Len(src) : src[p].kind = "ok" /\ Len(src[p].items) <= per_page
    /\ Len(src[Len(src)].items) < per_page

FullBeforeLast(src) == \A p \in 1..(Len(src) - 1) : Len(src[p].items) = per_page

\* C3 as stated: on every source with pages of at most per_page entries and
\* a last page shorter than per_page, the loop ends with the logins of all
\* pages after exactly ceil(total / per_page) requests.  (Stated here for
\* sources without an empty page, the reading most favourable to it.)
C3_AllPagesCeilRequests ==
    ( /\ prog = "listing" /\ pc # "start" /\ ShortLastPage(source)
      /\ \A p \in 1..Len(source) : Len(source[p].items) > 0 ) =>
      /\ ~listed.raised
      /\ listed.members = Logins(ItemsUpTo(source, Len(source)))
      /\ listed.requests = Ceil(Len(ItemsUpTo(source, Len(source))), per_page)

\* C3 amended: when moreover every page before the last is full, the loop
\* ends with the logins of all pages after one request per page, that is
\* total \div per_page + 1 requests, which is ceil(total / per_page) when
\* the last page is not empty; pages of 100, 100 and 37 give 237 logins
\* with 3 requests.
C3_FullPagesThenShortPage ==
    (prog = "listing" /\ pc # "start" /\ ShortLastPage(source) /\ FullBeforeLast(source)) =>
      LET total == Len(ItemsUpTo(source, Len(source))) IN
      /\ ~listed.raised
      /\ listed.members = Logins(ItemsUpTo(source, Len(source)))
      /\ listed.requests = Len(source)
      /\ listed.requests = (total \div per_page) + 1
      /\ Len(source[Len(source)].items) > 0 => listed.requests = Ceil(total, per_page)
      /\ (PageSizesOf(source) = <<100, 100, 37>> /\ source[1].items[1] # "")
            => Len(listed.members) = 237 /\ listed.requests = 3

C3_Witness ==
    /\ prog = "listing" /\ pc = "members"
    /\ PageSizesOf(source) = <<100, 100, 37>>
    /\ \A p \in 1..3 : source[p].kind = "ok"
    /\ Len(listed.members) = 237 /\ listed.requests = 3
    /\ listed.members[237] = "u3.37"

\* C4: when the request for page k fails (non-200 or transport error), the
\* loop stops there: k requests in all, no exception, and exactly the
\* logins of pages 1..k-1 returned.
C4_FailedPageStopsPaging ==
    (prog = "listing" /\ pc # "start") =>
      \A k \in 1..Len(source) :
        ( /\ source[k].kind \in FailedKinds
          /\ \A j \in 1..(k - 1) :
                source[j].kind = "ok" /\ Len(source[j].items) = per_page )
        => listed = [members |-> Logins(ItemsUpTo(source, k - 1)),
                     requests |-> k, raised |-> FALSE]

C4_Witness ==
    /\ prog = "listing" /\ pc = "members"
    /\ Len(source) = 3
    /\ Len(source[1].items) = per_page
    /\ source[2].kind = "non200"
    /\ Len(source[3].items) = 37
    /\ Len(listed.members) = 100 /\ listed.requests = 2 /\ ~listed.raised

\* the natural key of a dict: its four key fields, an absent one apart from
\* every string
NaturalKey(d) ==
    [i \in 1..4 |->
        LET k == <<"organization_slug", "user_login", "report_start_day",
                   "report_end_day">>[i]
        IN  IF k \in DOMAIN d THEN <<"str", d[k]>> ELSE <<"None", "">>]

\* the natural key with None and "" taken as one value
NaturalKeyText(d) ==
    [i \in 1..4 |->
        LET k == <<"organization_slug", "user_login", "report_start_day",
                   "report_end_day">>[i]
        IN  IF k \in DOMAIN d THEN d[k] ELSE ""]

\* C5: two records with the same natural key get the same unique_hash
\* whatever their counters and timestamps, and hashing a record again gives
\* the same value.
C5_HashOfNaturalKeyOnly ==
    (prog = "hashing" /\ pc = "done") =>
      /\ NaturalKey(inputs[1]) = NaturalKey(inputs[2]) => hashes[1] = hashes[2]
      /\ hashes[3] = hashes[1]

C5_Witness ==
    /\ prog = "hashing" /\ pc = "done"
    /\ NaturalKey(inputs[1]) = NaturalKey(inputs[2])
    /\ inputs[1].commit_count # inputs[2].commit_count
    /\ inputs[1].last_updated_at # inputs[2].last_updated_at
    /\ hashes[1] = hashes[2]
    /\ hashes[1] = "acme-corp-alex-2026-10-31-2026-11-01"

\* C6: two natural keys that differ in a field (None and "" being one
\* value) are hashed from different byte strings.
C6_DistinctKeysDistinctHashes ==
    (prog = "hashing" /\ pc = "done") =>
      (NaturalKeyText(inputs[1]) # NaturalKeyText(inputs[2]) => hashes[1] # hashes[2])

\* every ActivityRecord a state holds: the fetcher's accumulator and
\* returned list, and the record the simulator's generator returned
ActivityRecords ==
    {all_records[i] : i \in 1..Len(all_records)}
    \cup {result.value[i] : i \in 1..Len(result.value)}
    \cup (IF activity.emitted THEN {activity.record} ELSE {})

\* C7: in every ActivityRecord, of the fetcher and of the simulator,
\* total_contributions is the sum of the record's commit_count, prs_opened,
\* prs_merged, prs_reviewed and issues_opened, and code_review_activity is
\* the sum of its prs_reviewed and pr_comments.
C7_AggregatesAreSums ==
    \A r \in ActivityRecords :
      /\ r.total_contributions
            = r.commit_count + r.prs_opened + r.prs_merged + r.prs_reviewed
              + r.issues_opened
      /\ r.code_review_activity = r.prs_reviewed + r.pr_comments

C7_Witness ==
    /\ prog = "fetcher" /\ result.state = "returned"
    /\ Len(result.value) = 2
    /\ result.value[1].total_contributions = 13
    /\ result.value[1].prs_merged = 0
    /\ result.value[2].total_contributions = 15
    /\ result.value[2].code_review_activity = 10

\* C8: in every ActivityRecord, of the fetcher and of the simulator, the
\* number of days from report_start_day to report_end_day is period_days.
C8_WindowLengthIsPeriodDays ==
    \A r \in ActivityRecords :
      strptime(r.report_end_day) - strptime(r.report_start_day) = r.period_days

DocumentedRamp ==
    [d \in {0, 6, 13, 20, 27, 34, 41, 55, 56} |->
        CASE d = 0 -> 100 [] d = 6 -> 98 [] d = 13 -> 102 [] d = 20 -> 108
          [] d = 27 -> 115 [] d = 34 -> 120 [] d = 41 -> 125 [] d = 55 -> 128
          [] d = 56 -> 130]

RampThresholds == {7, 14, 21, 28, 35, 42, 56}

\* the value changes between the day before and this day
RampStepsHere ==
    modifier # get_activity_modifier(sim.date - 1, sim.copilot_adoption_date)

\* C10 as stated: at days_since_adoption 0, 6, 13, 20, 27, 34, 41, 55, 56
\* get_activity_modifier is 1.0, 0.98, 1.02, 1.08, 1.15, 1.20, 1.25, 1.28,
\* 1.30, and it changes exactly at the thresholds 7/14/21/28/35/42/56.
C10_DocumentedBreakpoints ==
    (prog = "ramp" /\ pc = "done") =>
      LET d == sim.date - sim.copilot_adoption_date IN
      /\ d \in DOMAIN DocumentedRamp => modifier = DocumentedRamp[d]
      /\ d >= 1 => (RampStepsHere <=> d \in RampThresholds)

\* C10 amended: the value at day 0 is 0.98 (1.0 is the value of the days
\* before the adoption only); the other eight documented values stand, and
\* from day 1 on the value changes exactly at the thresholds.
C10_BreakpointsFromWeekOne ==
    (prog = "ramp" /\ pc = "done") =>
      LET d == sim.date - sim.copilot_adoption_date IN
      /\ d < 0 => modifier = 100
      /\ d = 0 => modifier = 98
      /\ d \in DOMAIN DocumentedRamp \ {0} => modifier = DocumentedRamp[d]
      /\ d >= 1 => (RampStepsHere <=> d \in RampThresholds)

C10_Witness ==
    /\ prog = "ramp" /\ pc = "done"
    /\ sim.date - sim.copilot_adoption_date = 56
    /\ modifier = 130
    /\ RampStepsHere

\* C11: on and after the adoption day get_activity_modifier never
\* decreases from one day to a later one, never exceeds 1.30, and is 1.30
\* from days_since_adoption 56 on, so at 70.
C11_RampNonDecreasingToCeiling ==
    (prog = "ramp" /\ pc = "done") =>
      LET d == sim.date - sim.copilot_adoption_date IN
      d >= 0 =>
        /\ modifier <= 130
        /\ \A e \in 0..d :
              get_activity_modifier(sim.copilot_adoption_date + e,
                  sim.copilot_adoption_date) <= modifier
        /\ d >= 56 => modifier = 130

C11_Witness ==
    /\ prog = "ramp" /\ pc = "done"
    /\ sim.date - sim.copilot_adoption_date = 70
    /\ modifier = 130

\* C12: on a day before the adoption date generate_copilot_metrics_for_day
\* returns None whatever is drawn, get_activity_modifier returns 1.0, and a
\* record of generate_developer_activity_for_day is made with the modifier
\* 1.0, the persona's multiplier not applied.
C12_BeforeAdoptionBaseline ==
    (pc = "done" /\ prog \in {"ramp", "usage", "activity"}
        /\ sim.date < sim.copilot_adoption_date) =>
      /\ prog = "ramp" => modifier = 100
      /\ prog = "usage" => ~usage.emitted
      /\ (prog = "activity" /\ activity.emitted) => modifier = 10000

C12_Witness ==
    /\ prog = "activity" /\ pc = "done"
    /\ sim.date = sim.copilot_adoption_date - 1
    /\ sim.developer.persona = "power_user"
    /\ activity.emitted
    /\ modifier = 10000

CodeCounters ==
    {"code_generation_activity_count", "code_acceptance_activity_count",
     "loc_suggested_to_add_sum", "loc_suggested_to_delete_sum",
     "loc_added_sum", "loc_deleted_sum"}

\* the sum over a breakdown falls short of the top-level value by
\* truncation only: by less than one per entry
UpToTruncation(r, breakdown, counters) ==
    \A c \in counters :
        LET sum == SumOf(r[breakdown], c, Len(r[breakdown]))
        IN  sum <= r[c] /\ r[c] - sum < Len(r[breakdown])

\* C20: in every usage record totals_by_ide has one entry, whose counters
\* are the top-level counters, and in each other breakdown the sum of each
\* counter over the entries is the top-level counter up to truncation.
C20_BreakdownsSumToTotals ==
    (prog = "usage" /\ usage.emitted) =>
      LET r == usage.record IN
      /\ Len(r.totals_by_ide) = 1
      /\ \A c \in CodeCounters \cup {"user_initiated_interaction_count"} :
            r.totals_by_ide[1][c] = r[c]
      /\ UpToTruncation(r, "totals_by_feature",
             CodeCounters \cup {"user_initiated_interaction_count"})
      /\ UpToTruncation(r, "totals_by_language_model", CodeCounters)
      /\ UpToTruncation(r, "totals_by_language_feature", CodeCounters)

\* C17: the unique_hash the simulator stamps on an activity record (a
\* one-day window) is the unique_hash the fetcher's call computes for the
\* same record.
C17_SimulatorHashIsFetcherHash ==
    (prog = "activity" /\ activity.emitted) =>
      /\ activity.record.report_start_day = activity.record.day
      /\ activity.record.report_end_day = activity.record.day
      /\ activity.record.unique_hash
            = generate_unique_hash(activity.record, ActivityKeyProperties)


\* the roster position of a record's developer
RosterPosition(r) ==
    CHOOSE k \in 1..Len(developers) : developers[k].user_login = r.user_login

\* record a comes before record b: on an earlier day, or on the same day
\* for a developer earlier in the roster
Before(a, b) ==
    \/ strptime(a.day) < strptime(b.day)
    \/ a.day = b.day /\ RosterPosition(a) < RosterPosition(b)

StrictlySorted(list) ==
    \A a \in 1..Len(list), b \in 1..Len(list) : a < b => Before(list[a], list[b])

\* C18: generate_all_mock_data visits the days in chronological order,
\* each once, and within a day the developers in roster order, each once;
\* so each output list is sorted by day and, within a day, by roster
\* position, with at most one record per developer and day.
C18_ChronologicalRosterOrder ==
    prog = "generate" =>
      /\ \A k \in 1..Len(visited) :
            visited[k] = <<run_start + ((k - 1) \div Len(developers)),
                           ((k - 1) % Len(developers)) + 1>>
      /\ pc = "returned" => Len(visited) = MaxRunDays * Len(developers)
      /\ StrictlySorted(copilot_metrics)
      /\ StrictlySorted(developer_activity)
      /\ Len(copilot_metrics) <= Len(visited)
      /\ Len(developer_activity) <= Len(visited)

C18_Witness ==
    /\ prog = "generate" /\ pc = "returned"
    /\ Len(developer_activity) = 4
    /\ Len(copilot_metrics) = 2
    /\ developer_activity[2].day = strftime(run_start)
    /\ developer_activity[2].user_login = developers[2].user_login
    /\ developer_activity[3].day = strftime(run_start + 1)
    /\ developer_activity[3].user_login = developers[1].user_login

(***************************** the loader's claims **************************)
BulkCalls(index) == SelectSeq(calls, LAMBDA c : c.op = "bulk" /\ c.index = index)

ListOf(index) ==
    IF index = INDEX_USER_METRICS THEN copilot_metrics ELSE developer_activity

BatchesOf(n) == (n + batch_size - 1) \div batch_size

\* C13: when the connectivity check fails, the load step returns False
\* after the health request alone (no delete, create, bulk or refresh), for
\* every kind of failure of that request, and never raises
C13_FailedCheckReturnsFalse ==
    (prog = "main" /\ calls # <<>> /\ calls[1].outcome # "200"
        /\ pc \in {"return", "exited"})
    => (success = "False" /\ Len(calls) = 1)

\* C14: once bulk_index has returned for a list of n records, it has sent
\* ceil(n/500) bulk requests, holding the records in list order in batches
\* of 500, whatever became of each request, and indexed + errors = n
C14_EveryBatchSentAndCounted ==
    prog = "main" =>
        \A p \in 1..Len(totals) :
            LET index == IF p = 1 THEN INDEX_USER_METRICS ELSE INDEX_DEVELOPER_ACTIVITY
                list == ListOf(index)
                sent == BulkCalls(index)
            IN  /\ Len(sent) = BatchesOf(Len(list))
                /\ \A b \in 1..Len(sent) :
                      sent[b].ids =
                          [k \in 1..Min(batch_size, Len(list) - (b - 1) * batch_size) |->
                              list[(b - 1) * batch_size + k].unique_hash]
                /\ totals[p][1] + totals[p][2] = Len(list)

\* a load of three batches whose first bulk request was refused
C14_Witness ==
    /\ prog = "main" /\ Len(totals) = 2
    /\ Len(developer_activity) = 2 * batch_size + 1
    /\ Len(BulkCalls(INDEX_DEVELOPER_ACTIVITY)) = 3
    /\ BulkCalls(INDEX_DEVELOPER_ACTIVITY)[1].outcome = "non2xx"
    /\ totals[2] = <<batch_size + 1, batch_size>>

\* C15: the process exits with a non-zero status if and only if
\* load_to_elasticsearch returned its connectivity failure
C15_NonZeroExitIffConnectivityFailure ==
    (prog = "main" /\ pc = "exited") => ((exit_status # 0) <=> (success = "False"))

RecordKey(record) ==
    <<record.organization_slug, record.user_login, record.report_start_day,
      record.report_end_day>>

\* C16: an index never holds two documents of one natural key, and once
\* bulk_index has returned without errors for a list, the index holds
\* exactly the records of that list, one document per natural key, also
\* when an earlier run had loaded records of the same keys
C16_ReplayOverwrites ==
    prog = "main" =>
        \A p \in 1..2 :
            LET index == IF p = 1 THEN INDEX_USER_METRICS ELSE INDEX_DEVELOPER_ACTIVITY
                list == ListOf(index)
                docs == sink[index]
                sources == {docs[id]._source : id \in DOMAIN docs}
            IN  /\ Cardinality({RecordKey(r) : r \in sources}) = Cardinality(DOMAIN docs)
                /\ (Len(totals) >= p /\ totals[p][2] = 0) =>
                      /\ sources = {list[k] : k \in 1..Len(list)}
                      /\ Cardinality(DOMAIN docs)
                            = Cardinality({RecordKey(list[k]) : k \in 1..Len(list)})

\* a second run has written over the four documents of the first
C16_Witness ==
    /\ prog = "main" /\ runs = 2 /\ pc = "exited" /\ success = "True"
    /\ totals = <<<<2, 0>>, <<4, 0>>>>
    /\ \A id \in DOMAIN sink[INDEX_DEVELOPER_ACTIVITY] :
          sink[INDEX_DEVELOPER_ACTIVITY][id]._version = 2

CallsOf(op, index, n) == [k \in 1..n |-> <<op, index>>]

\* the requests of a load that runs to its end; with_create tells the
\* indexes whose setup sends a create
LoadRequests(with_create) ==
    LET setup(index) ==
            <<<<"delete", index>>>>
            \o (IF index \in with_create THEN <<<<"create", index>>>> ELSE <<>>)
    IN  <<<<"health", "">>>>
        \o setup(INDEX_USER_METRICS) \o setup(INDEX_DEVELOPER_ACTIVITY)
        \o CallsOf("bulk", INDEX_USER_METRICS, BatchesOf(Len(copilot_metrics)))
        \o CallsOf("bulk", INDEX_DEVELOPER_ACTIVITY, BatchesOf(Len(developer_activity)))
        \o <<<<"refresh", INDEX_USER_METRICS>>, <<"refresh", INDEX_DEVELOPER_ACTIVITY>>>>

InOrder(with_create) ==
    LET sent == [k \in 1..Len(calls) |-> <<calls[k].op, calls[k].index>>]
        whole == LoadRequests(with_create)
    IN  /\ Len(sent) <= Len(whole)
        /\ sent = SubSeq(whole, 1, Len(sent))
        /\ success = "True" => Len(sent) = Len(whole)

\* C19 as stated: after a successful connectivity check the requests are,
\* in this order, a delete and a create for each index, the bulk requests
\* of the usage index, those of the activity index, and one refresh per
\* index
C19_DeleteCreateBulkRefresh ==
    (prog = "main" /\ calls # <<>> /\ calls[1].outcome = "200")
    => InOrder({INDEX_USER_METRICS, INDEX_DEVELOPER_ACTIVITY})

\* C19 amended: the same order, the create of an index being sent only
\* when the mapping file of that index exists
C19_CreateWhenMappingExists ==
    (prog = "main" /\ calls # <<>> /\ calls[1].outcome = "200")
    => InOrder({index \in {INDEX_USER_METRICS, INDEX_DEVELOPER_ACTIVITY} :
                   MappingFileOf(index) \in mapping_files})

\* a load of both lists that ran to its end with both mapping files
C19_Witness ==
    /\ prog = "main" /\ success = "True"
    /\ mapping_files # {}
    /\ copilot_metrics # <<>> /\ developer_activity # <<>>
    /\ Len(calls) = 9

(***************************** the acceptance rate **************************)
\* the acceptance count of the day's record is int(code generations * rate)
AcceptedAt(rate) ==
    usage.record.code_acceptance_activity_count
        = IntOf(usage.record.code_generation_activity_count * rate, 100)

UnderCeiling ==
    100 * usage.record.code_acceptance_activity_count
        <= 45 * usage.record.code_generation_activity_count

\* C21 as stated: the rate applied d days after the adoption is the drawn
\* rate plus 0.02 once d has reached 14 plus 0.02 once d has reached 28,
\* capped at 0.45, and the acceptances are at most 0.45 of the generations
C21_BonusesOnceMarksReached ==
    (prog = "usage" /\ usage.emitted) =>
        LET d == sim.date - sim.copilot_adoption_date
        IN  /\ AcceptedAt(Min(usage.drawn_rate + (IF d >= 14 THEN 2 ELSE 0)
                                  + (IF d >= 28 THEN 2 ELSE 0), 45))
            /\ UnderCeiling

\* C21 amended: the bonuses are given once d has passed 14 and 28 (d > 14,
\* d > 28); on the 14th and 28th day themselves the earlier rate applies
C21_BonusesOnceMarksPassed ==
    (prog = "usage" /\ usage.emitted) =>
        LET d == sim.date - sim.copilot_adoption_date
        IN  /\ AcceptedAt(Min(usage.drawn_rate + (IF d > 14 THEN 2 ELSE 0)
                                  + (IF d > 28 THEN 2 ELSE 0), 45))
            /\ UnderCeiling

\* a record of the 28th day whose acceptances show one bonus, not two
C21_Witness ==
    /\ prog = "usage" /\ usage.emitted
    /\ sim.date - sim.copilot_adoption_date = 28
    /\ AcceptedAt(usage.drawn_rate + 2)
    /\ ~AcceptedAt(usage.drawn_rate + 4)

(***************************** one run of the simulator *********************)
Hashes(list) == {list[k].unique_hash : k \in 1..Len(list)}

\* C22: the 25 logins of the roster are pairwise distinct, no two records
\* of a list of one run have the same unique_hash, and a bulk load of a
\* list that returned without errors into the index, empty at the start of
\* the run, leaves as many documents as the list has records
C22_DistinctHashesOneDocumentEach ==
    /\ Cardinality({generate_developer_name(i) : i \in 0..(NUM_DEVELOPERS - 1)})
          = NUM_DEVELOPERS
    /\ prog \in {"generate", "main"} =>
          \A p \in 1..2 :
              LET index == IF p = 1 THEN INDEX_USER_METRICS ELSE INDEX_DEVELOPER_ACTIVITY
                  list == ListOf(index)
              IN  /\ Cardinality(Hashes(list)) = Len(list)
                  /\ (prog = "main" /\ Len(totals) >= p /\ totals[p][2] = 0) =>
                        Cardinality(DOMAIN sink[index]) = Len(list)

\* a run that generated records of both developers on the adoption day and
\* loaded them all
C22_Witness ==
    /\ prog = "main" /\ pc = "exited" /\ success = "True"
    /\ Len(visited) = MaxRunDays * MaxRunDevelopers
    /\ Len(copilot_metrics) = MaxRunDevelopers
    /\ Len(developer_activity) >= MaxRunDevelopers
    /\ totals = <<<<Len(copilot_metrics), 0>>, <<Len(developer_activity), 0>>>>
    /\ Cardinality(DOMAIN sink[INDEX_USER_METRICS]) = Len(copilot_metrics)
    /\ Cardinality(DOMAIN sink[INDEX_DEVELOPER_ACTIVITY]) = Len(developer_activity)

(***************************** the repository listing ***********************)
\* what the repository listing of a member can answer: an empty page, a
\* page of names, a non-200 status, an exception, a body that is no list
RepoListings ==
    {OkPage(<<>>), OkPage(<<"api-gateway", "web-app">>)}
    \cup {Fault(kind) : kind \in FaultKinds}

\* C23: whatever the repository listing of get_user_commits answers (pages,
\* errors or malformed bodies), the member's iteration ends the same way
\* and gives the same record
C23_RecordsIgnoreRepoListing ==
    (prog = "fetcher" /\ log.member > 0) =>
        \A listing \in RepoListings :
            LET other ==
                    process_member(members[log.member], args.organization_slug,
                        slug_type(args.is_standalone), dates.since_date,
                        dates.until_date, args.days_back,
                        [log.resps EXCEPT ![0] = listing])
            IN  /\ other.raised = log.raised
                /\ ~log.raised => other.record = Last(all_records)

====
